---------------------------- MODULE Spec2Model ----------------------------
(***************************************************************************)
(* mpfr_sum (src/src/sum.c): correctly rounded sum of a list of            *)
(* arbitrary-precision binary floating-point numbers.                      *)
(*                                                                         *)
(* A number is a record [cls, sign, exp, prec, mant]: cls is "nan", "inf", *)
(* "zero" or "reg"; a regular number has the value                         *)
(*     sign * mant * 2^(exp - prec),   2^(prec-1) <= mant < 2^prec.        *)
(* A limb array of k limbs is the natural number below                     *)
(* 2^(k*GMP_NUMB_BITS) that it encodes, least significant limb first; the  *)
(* mpn_* primitives are the arithmetic they perform on that number.        *)
(*                                                                         *)
(* The model follows the default build, in which MPFR_ASSERTD is compiled  *)
(* out.  A pass of the sum_raw loop that is entered with maxexp <= minexp, *)
(* or a shift by a negative count, has no defined result: with assertions  *)
(* compiled in the call aborts, without them limb counts turn non-positive,*)
(* xe - MPFR_EXP_MIN overflows, or the same pass repeats for ever.  The    *)
(* call then does not return; the model ends it in "abort" or "hang".      *)
(***************************************************************************)
EXTENDS Integers, Sequences, FiniteSets, TLC

(***************************************************************************)
(* Bounds of the model.                                                    *)
(***************************************************************************)
GMP_NUMB_BITS == 4      \* limb width of the modelled platform
MaxPrec == 1            \* input precisions are 1..MaxPrec
MaxSq == 2              \* output precisions are 1..MaxSq
ExpLow == 1             \* input exponents are -ExpLow..ExpHigh
ExpHigh == 6
MaxN == 3               \* lists hold 0..MaxN numbers
MaxWide == 5            \* precisions of the single inputs and of the lists that cancel

MPFR_EXP_MIN == 0 - 1000   \* stands for LONG_MIN: below every valid exponent

B == GMP_NUMB_BITS

RndModes == {"RNDN", "RNDZ", "RNDU", "RNDD", "RNDA"}

(***************************************************************************)
(* Numbers.                                                                *)
(***************************************************************************)
Num(c, s, e, p, m) == [cls |-> c, sign |-> s, exp |-> e, prec |-> p, mant |-> m]

Singulars ==
  {Num("nan", 1, 0, 1, 0)} \cup {Num(c, s, 0, 1, 0) : c \in {"inf", "zero"}, s \in {1, -1}}

Regulars ==
  UNION {UNION {{Num("reg", s, e, p, m) : s \in {1, -1}, e \in (0 - ExpLow)..ExpHigh}
                : m \in (2^(p-1))..(2^p - 1)} : p \in 1..MaxPrec}

MPFR_IS_SINGULAR(xi) == xi.cls # "reg"

(***************************************************************************)
(* Limb arithmetic.                                                        *)
(***************************************************************************)
MPFR_PREC2LIMBS(p) == (p - 1) \div B + 1

MPFR_LIMB_MASK(s) == 2^s - 1

MPFR_LIMB_MAX == 2^B - 1

MPFR_LIMB_HIGHBIT == 2^(B - 1)

\* limb i of the array v
Limb(v, i) == (v \div 2^(B * i)) % 2^B

\* the k least significant limbs of v
LowLimbs(v, k) == v % 2^(B * k)

\* MPFR_MANT (x): the mantissa, left-aligned in MPFR_PREC2LIMBS (xq) limbs
MPFR_MANT(xi) == xi.mant * 2^(MPFR_PREC2LIMBS(xi.prec) * B - xi.prec)

\* limb i of v and-ed with MPFR_LIMB_MASK (k), the other limbs unchanged
MaskLimb(v, i, k) == v - (Limb(v, i) \div 2^k) * 2^k * 2^(B * i)

RECURSIVE BitLength(_)
BitLength(b) == IF b = 0 THEN 0 ELSE 1 + BitLength(b \div 2)

\* count_leading_zeros (cnt, b) on one limb, b # 0
count_leading_zeros(b) == B - BitLength(b)

RECURSIVE CeilLog2From(_, _)
CeilLog2From(n, k) == IF 2^k >= n THEN k ELSE CeilLog2From(n, k + 1)

MPFR_INT_CEIL_LOG2(n) == CeilLog2From(n, 0)

(***************************************************************************)
(* sum_raw: one input folded into the accumulator (lines 111-287).         *)
(* a = [w, maxexp2]; the accumulator w has ws limbs and its least          *)
(* significant bit has exponent minexp.                                    *)
(***************************************************************************)
\* lines 258-286 without the truncation of lines 262-268: the tr most
\* significant bits of the block are added with the rest
AddBlockWhole(w, ws, vds, vp, vs, tr, sign) ==
  LET ds == ws - vds
      val == LowLimbs(vp, vs)
      lo == w % 2^(B * vds)
      hi == w \div 2^(B * vds)
  IN  ((hi + sign * val) % 2^(B * ds)) * 2^(B * vds) + lo

\* lines 258-286: add (sign = 1) or subtract (sign = -1) the vs limbs of vp,
\* less the tr most significant bits, into the accumulator from limb vds on
AddBlock(w, ws, vds, vp, vs, tr, sign) ==
  LET ds == ws - vds
      vs1 == IF tr # 0 THEN vs - 1 ELSE vs
      frag == IF tr # 0 THEN Limb(vp, vs1) % 2^(B - tr) ELSE 0
      val == LowLimbs(vp, vs1) + frag * 2^(B * vs1)
      lo == w % 2^(B * vds)
      hi == w \div 2^(B * vds)
  IN  ((hi + sign * val) % 2^(B * ds)) * 2^(B * vds) + lo

\* lines 131-199: x[i] reaches below the least significant bit of the accumulator
FoldLow(a, xi, minexp, maxexp, ws) ==
  LET xe == xi.exp
      xq == xi.prec
      vs0 == MPFR_PREC2LIMBS(xq)
      vdn == 0 - (xe - vs0 * B - minexp)
      vds == vdn \div B
      vs1 == vs0 - vds
      vp1 == MPFR_MANT(xi) \div 2^(B * vds)
      vd == vdn - vds * B
      vs2 == IF xe > maxexp THEN vs1 - (xe - maxexp) \div B ELSE vs1
      tr0 == IF xe > maxexp THEN (xe - maxexp) % B ELSE 0
      t == LowLimbs(vp1, vs2) \div 2^vd          \* mpn_rshift (tp, vp, vs, vd)
      tr1 == tr0 + vd
      vs3 == IF tr1 >= B THEN vs2 - 1 ELSE vs2
      tr2 == IF tr1 >= B THEN tr1 - B ELSE tr1
      tm == IF tr2 # 0 THEN MaskLimb(t, vs3 - 1, B - tr2) ELSE t
      m2 == IF xe - xq < minexp THEN minexp ELSE a.maxexp2
  IN  IF xe <= minexp
      THEN [a EXCEPT !.maxexp2 = IF xe > @ THEN xe ELSE @]
      ELSE IF vd # 0
           THEN [w |-> AddBlock(a.w, ws, 0, tm, vs3, 0, xi.sign), maxexp2 |-> m2]
           ELSE [w |-> AddBlock(a.w, ws, 0, vp1, vs2, tr0, xi.sign), maxexp2 |-> m2]

\* lines 200-256: the least significant bit of x[i] is in or above the accumulator
FoldHigh(a, xi, minexp, maxexp, ws) ==
  LET xe == xi.exp
      vs0 == MPFR_PREC2LIMBS(xi.prec)
      vd0 == xe - vs0 * B - minexp
      vds == vd0 \div B
      ds == ws - vds
      vd == vd0 - vds * B
      vs1 == IF xe > maxexp THEN vs0 - (xe - maxexp) \div B ELSE vs0
      tr0 == IF xe > maxexp THEN (xe - maxexp) % B ELSE 0
      full == LowLimbs(MPFR_MANT(xi), vs1) * 2^vd   \* mpn_lshift and its carry limb
      tr1 == tr0 - vd
  IN  IF ds <= 0 \/ vs1 <= 0
      THEN a
      ELSE IF vd # 0
           THEN IF tr1 < 0
                THEN [a EXCEPT !.w = AddBlock(a.w, ws, vds, full, vs1 + 1, tr1 + B, xi.sign)]
                ELSE [a EXCEPT !.w = AddBlock(a.w, ws, vds, LowLimbs(full, vs1), vs1, tr1, xi.sign)]
           ELSE [a EXCEPT !.w = AddBlock(a.w, ws, vds, MPFR_MANT(xi), vs1, tr0, xi.sign)]

FoldInput(a, xi, minexp, maxexp, ws) ==
  IF MPFR_IS_SINGULAR(xi)
  THEN a
  ELSE IF xi.exp - MPFR_PREC2LIMBS(xi.prec) * B - minexp < 0
       THEN FoldLow(a, xi, minexp, maxexp, ws)
       ELSE FoldHigh(a, xi, minexp, maxexp, ws)

\* lines 176-180 and 241-255: the count of the shift of x[i] into tp (0: no
\* shift, vp still points to the mantissa of x[i])
ShiftCount(xi, minexp) ==
  LET vd == xi.exp - MPFR_PREC2LIMBS(xi.prec) * B - minexp
  IN  IF vd < 0 THEN (0 - vd) % B ELSE vd % B

\* does the fold of x[i] reach the addition of lines 258-286?
FoldAdds(xi, minexp, maxexp, ws) ==
  LET vs0 == MPFR_PREC2LIMBS(xi.prec)
      vd == xi.exp - vs0 * B - minexp
  IN  /\ ~MPFR_IS_SINGULAR(xi)
      /\ IF vd < 0
         THEN xi.exp > minexp
         ELSE /\ ws - vd \div B > 0
              /\ (xi.exp > maxexp => vs0 - (xi.exp - maxexp) \div B > 0)

\* variant of FoldStores in which the most significant limb of an input that
\* was not shifted is truncated in place, through vp
FoldStoresInPlace(xi, minexp, maxexp, ws) ==
  IF ~FoldAdds(xi, minexp, maxexp, ws) THEN {}
  ELSE IF ShiftCount(xi, minexp) # 0 THEN {"tp", "wp"}
  ELSE IF xi.exp > maxexp /\ (xi.exp - maxexp) % B # 0 THEN {"x", "wp"}
  ELSE {"wp"}

\* lines 111-287: the areas that the fold of x[i] stores into: tp (lines 179,
\* 190, 245, 250) when x[i] is shifted, and the accumulator (lines 271-285)
FoldStores(xi, minexp, maxexp, ws) ==
  IF ~FoldAdds(xi, minexp, maxexp, ws) THEN {}
  ELSE IF ShiftCount(xi, minexp) # 0 THEN {"tp", "wp"}
  ELSE {"wp"}

\* x[i] after its fold: a store into the mantissa of x[i] is the truncation
\* of the bits above maxexp of its most significant limb
InputAfterFold(xi, minexp, maxexp, ws) ==
  IF "x" \in FoldStores(xi, minexp, maxexp, ws)
  THEN [xi EXCEPT !.mant = IF xi.prec > (xi.exp - maxexp) % B
                           THEN @ % 2^(xi.prec - ((xi.exp - maxexp) % B)) ELSE 0]
  ELSE xi

\* the inputs after a pass of the loop of sum_raw
InputsAfterPass(xs, minexp, maxexp, ws) ==
  [i \in DOMAIN xs |-> InputAfterFold(xs[i], minexp, maxexp, ws)]

\* the areas stored into by a pass of the loop of sum_raw
PassStores(xs, minexp, maxexp, ws) ==
  UNION {FoldStores(xs[i], minexp, maxexp, ws) : i \in DOMAIN xs}

\* lines 110-287: the for loop over x[i], i = k..n-1
RECURSIVE FoldFrom(_, _, _, _, _, _)
FoldFrom(a, xs, k, minexp, maxexp, ws) ==
  IF k > Len(xs)
  THEN a
  ELSE FoldFrom(FoldInput(a, xs[k], minexp, maxexp, ws), xs, k + 1, minexp, maxexp, ws)

\* lines 295-314: the number of leading limbs equal to a, then the leading
\* zeros of the first limb that differs, xor-ed with a; <<cancel, wi>>
RECURSIVE CountCancel(_, _, _, _)
CountCancel(w, wi, a, cancel) ==
  IF wi < 0
  THEN <<cancel, wi>>
  ELSE IF Limb(w, wi) = a
       THEN CountCancel(w, wi - 1, a, cancel + B)
       ELSE <<cancel + count_leading_zeros(IF a = 0 THEN Limb(w, wi)
                                                    ELSE MPFR_LIMB_MAX - Limb(w, wi)), wi>>

\* lines 337-340: "this basically tests whether err <= e - prec"
EnoughPrecision(e, err, prec) ==
  IF e >= 0 THEN err <= e - prec ELSE err <= e /\ (0 - e) + prec >= 0 - err

(***************************************************************************)
(* sum_raw: one pass of the while (1) loop (lines 98-388).  The result     *)
(* has status "ret" (return cancel, with e, err and the new maxexp         *)
(* written), "ret0" (return 0, nothing written), "loop" (next pass) or     *)
(* "undef" (no defined behaviour); assertd tells whether the MPFR_ASSERTD  *)
(* of the pass hold.                                                       *)
(***************************************************************************)
RawState(st, w, minexp, maxexp, cancel, e, err, ok) ==
  [status |-> st, w |-> w, minexp |-> minexp, maxexp |-> maxexp,
   cancel |-> cancel, e |-> e, err |-> err, assertd |-> ok]

\* lines 289-388 with the test of line 375 left out: a zero accumulator
\* ends the call whatever the inputs still hold below the window
AfterCancelZeroEnds(a, cancel, wi, top, minexp, maxexp, ws, wq, logn, cq, prec) ==
  LET e == minexp + wq - cancel
      err == a.maxexp2 + logn
      diffexp == IF err - e < 0 THEN 0 ELSE err - e
      shiftq == cancel - 2 - diffexp
  IN  IF wi >= 0 \/ top # 0
      THEN IF EnoughPrecision(e, err, prec)
           THEN RawState("ret", a.w, minexp, a.maxexp2, cancel, e, err, TRUE)
           ELSE IF shiftq < 0
                THEN RawState("undef", a.w, minexp, a.maxexp2, cancel, e, err, FALSE)
                ELSE RawState("loop", (a.w * 2^shiftq) % 2^(B * ws), minexp - shiftq,
                              a.maxexp2, cancel, e, err,
                              diffexp < cancel - 2 /\ shiftq > 0)
      ELSE RawState("ret0", a.w, minexp, maxexp, 0, 0, 0, TRUE)

\* lines 289-388 with shiftq = cancel - 1 - diffexp at line 360: one bit
\* more is shifted out
AfterCancelShiftMore(a, cancel, wi, top, minexp, maxexp, ws, wq, logn, cq, prec) ==
  LET e == minexp + wq - cancel
      err == a.maxexp2 + logn
      diffexp == IF err - e < 0 THEN 0 ELSE err - e
      shiftq == cancel - 1 - diffexp
  IN  IF wi >= 0 \/ top # 0
      THEN IF EnoughPrecision(e, err, prec)
           THEN RawState("ret", a.w, minexp, a.maxexp2, cancel, e, err, TRUE)
           ELSE IF shiftq < 0
                THEN RawState("undef", a.w, minexp, a.maxexp2, cancel, e, err, FALSE)
                ELSE RawState("loop", (a.w * 2^shiftq) % 2^(B * ws), minexp - shiftq,
                              a.maxexp2, cancel, e, err,
                              diffexp < cancel - 2 /\ shiftq > 0)
      ELSE IF a.maxexp2 = MPFR_EXP_MIN
           THEN RawState("ret0", a.w, minexp, maxexp, 0, 0, 0, TRUE)
           ELSE RawState("loop", a.w, a.maxexp2 - (wq - cq), a.maxexp2, cancel, 0, 0, TRUE)

\* lines 289-388: the pass after the fold loop has left the accumulator a.w
\* and a.maxexp2; cancel counts the identical leading bits, wi is the index
\* the count stopped at, top the limb of sign bits
AfterCancel(a, cancel, wi, top, minexp, maxexp, ws, wq, logn, cq, prec) ==
  LET e == minexp + wq - cancel
      err == a.maxexp2 + logn
      diffexp == IF err - e < 0 THEN 0 ELSE err - e
      shiftq == cancel - 2 - diffexp
  IN  IF wi >= 0 \/ top # 0
      THEN IF EnoughPrecision(e, err, prec)
           THEN RawState("ret", a.w, minexp, a.maxexp2, cancel, e, err, TRUE)
           ELSE IF shiftq < 0
                THEN RawState("undef", a.w, minexp, a.maxexp2, cancel, e, err, FALSE)
                ELSE RawState("loop", (a.w * 2^shiftq) % 2^(B * ws), minexp - shiftq,
                              a.maxexp2, cancel, e, err,
                              diffexp < cancel - 2 /\ shiftq > 0)
      ELSE IF a.maxexp2 = MPFR_EXP_MIN
           THEN RawState("ret0", a.w, minexp, maxexp, 0, 0, 0, TRUE)
           ELSE RawState("loop", a.w, a.maxexp2 - (wq - cq), a.maxexp2, cancel, 0, 0, TRUE)

\* lines 295-314
AfterCount(a, cc, top, minexp, maxexp, ws, wq, logn, cq, prec) ==
  AfterCancel(a, cc[1], cc[2], top, minexp, maxexp, ws, wq, logn, cq, prec)

\* lines 289-294: a is the limb of sign bits
AfterFold(a, top, minexp, maxexp, ws, wq, logn, cq, prec) ==
  AfterCount(a, CountCancel(a.w, ws - 1, top, 0), top, minexp, maxexp, ws, wq, logn, cq, prec)

SignLimb(a, ws) == IF Limb(a.w, ws - 1) \div 2^(B - 1) # 0 THEN MPFR_LIMB_MAX ELSE 0

Folded(a, minexp, maxexp, ws, wq, logn, cq, prec) ==
  AfterFold(a, SignLimb(a, ws), minexp, maxexp, ws, wq, logn, cq, prec)

sum_raw_pass(w, minexp, maxexp, xs, ws, wq, logn, cq, prec) ==
  IF ~(maxexp > minexp)
  THEN RawState("undef", w, minexp, maxexp, 0, 0, 0, FALSE)
  ELSE Folded(FoldFrom([w |-> w, maxexp2 |-> MPFR_EXP_MIN], xs, 1, minexp, maxexp, ws),
              minexp, maxexp, ws, wq, logn, cq, prec)

\* sum_raw: the loop run to its end
RECURSIVE sum_raw_from(_, _, _, _, _, _, _)
sum_raw_from(r, xs, ws, wq, logn, cq, prec) ==
  IF r.status # "loop"
  THEN r
  ELSE sum_raw_from(sum_raw_pass(r.w, r.minexp, r.maxexp, xs, ws, wq, logn, cq, prec),
                    xs, ws, wq, logn, cq, prec)

sum_raw(w, xs, ws, wq, minexp, maxexp, logn, cq, prec) ==
  sum_raw_from(RawState("loop", w, minexp, maxexp, 0, 0, 0, TRUE), xs, ws, wq, logn, cq, prec)

(***************************************************************************)
(* sum_aux, Step 7 (lines 492-763): the bits [max(u,minexp),e) of the      *)
(* accumulator are copied to the mantissa of sum; rounding bit, inexact    *)
(* flag and TMD are determined; then absolute value and initial rounding.  *)
(***************************************************************************)
\* lines 645-668: the limbs below the first chunk are compared with limb
RECURSIVE TmdLoop(_, _, _, _, _)
TmdLoop(w, wi, d, limb, tmd) ==
  IF tmd = 0 \/ d = 0
  THEN tmd
  ELSE IF wi = 0
       THEN IF limb # 0 THEN 0 ELSE tmd
       ELSE LET limb2 == Limb(w, wi - 1)
            IN  IF d < B
                THEN IF limb2 \div 2^d # limb \div 2^d THEN 0 ELSE tmd
                ELSE TmdLoop(w, wi - 1, d - B, limb, IF limb2 # limb THEN 0 ELSE tmd)

\* lines 587-669: the accumulator is inexact; is the TMD detected?
\* [tmd, defined, assertd].  When d < 3 the count of the shifts of line
\* 626-627 can reach the width of a limb: they are then undefined and
\* ubtmd is the value of tmd that the build ends with
TmdDetect(w, wi0, td, u, err, rbit, rnd, ubtmd) ==
  LET d0 == u - err
      wi == IF td = 0 \/ (td = 1 /\ wi0 >= 1) THEN wi0 - 1 ELSE wi0
      limb0 == IF td = 0 THEN Limb(w, wi)
               ELSE IF td = 1 THEN (IF wi0 >= 1 THEN Limb(w, wi) ELSE 0)
               ELSE Limb(w, wi0)
      mask0 == IF td = 0 THEN MPFR_LIMB_MASK(B - 1)
               ELSE IF td = 1 THEN MPFR_LIMB_MAX
               ELSE MPFR_LIMB_MASK(td - 1)
      nbits == IF td = 0 THEN B - 1 ELSE IF td = 1 THEN B ELSE td - 1
      short == nbits > d0 - 1
      cnt == nbits - (d0 - 1)
      mask == IF short THEN mask0 \div 2^cnt ELSE mask0
      limb1 == (IF short THEN limb0 \div 2^cnt ELSE limb0) % (mask + 1)
      d == IF short THEN 0 ELSE d0 - (1 + nbits)
      tmd0 == IF limb1 = 0
              THEN (IF rbit = 0 THEN 1 ELSE IF rnd = "RNDN" THEN 2 ELSE 0)
              ELSE IF limb1 = mask
                   THEN (IF rbit # 0 THEN 1 ELSE IF rnd = "RNDN" THEN 2 ELSE 0)
                   ELSE 0
      limb == IF limb1 # 0 /\ limb1 = mask THEN MPFR_LIMB_MAX ELSE limb1
  IN  IF short /\ cnt >= B
      THEN [tmd |-> ubtmd, defined |-> FALSE, assertd |-> FALSE]
      ELSE [tmd |-> TmdLoop(w, wi, d, limb, tmd0), defined |-> TRUE, assertd |-> d0 >= 3]

\* lines 550-586: the accumulator is exact; <<inex, rbit>>
ExactInex(w, wi, td, rbit, rnd) ==
  LET sticky == IF td >= 1 /\ Limb(w, wi) % 2^td # 0 THEN 1
                ELSE IF LowLimbs(w, wi) # 0 THEN 1 ELSE 0
  IN  IF rbit = 0 \/ (rnd = "RNDN" /\ (Limb(w, wi) \div 2^td) % 2 = 0)
      THEN IF sticky = 0 /\ rbit # 0 THEN <<1, 0>> ELSE <<sticky, rbit>>
      ELSE <<1, rbit>>

\* variant of InitialCarry that rounds to nearest on the complement of rbit
InitialCarryInverted(rnd, inex, pos, rbit) ==
  CASE rnd = "RNDD" -> 0
    [] rnd = "RNDU" -> inex
    [] rnd = "RNDZ" -> IF inex # 0 /\ pos = 0 THEN 1 ELSE 0
    [] rnd = "RNDA" -> IF inex # 0 /\ pos # 0 THEN 1 ELSE 0
    [] OTHER -> 1 - rbit

\* lines 703-723: the carry of the initial rounding
InitialCarry(rnd, inex, pos, rbit) ==
  CASE rnd = "RNDD" -> 0
    [] rnd = "RNDU" -> inex
    [] rnd = "RNDZ" -> IF inex # 0 /\ pos = 0 THEN 1 ELSE 0
    [] rnd = "RNDA" -> IF inex # 0 /\ pos # 0 THEN 1 ELSE 0
    [] OTHER -> rbit

\* variant of SignAndRound that keeps the mantissa 0 and the exponent when
\* the negation borrows out of the most significant limb
SignAndRoundNoBorrow(sump, sn, sd, e, pos, carry) ==
  LET full == 2^(B * sn)
      masked == sump - (sump % 2^sd)
      up == masked + carry * 2^sd
      high == MPFR_LIMB_HIGHBIT * 2^(B * (sn - 1))
  IN  IF pos # 0
      THEN IF up >= full
           THEN <<LowLimbs(up - full, sn - 1) + high, e + 1>>
           ELSE <<up, e>>
      ELSE IF carry # 0
           THEN <<(full - 1 - sump) - ((full - 1 - sump) % 2^sd), e>>
           ELSE IF masked = 0
                THEN <<0, e>>
                ELSE <<full - masked, e>>

\* lines 725-763: sign handling and initial rounding; <<sump, e>>
SignAndRound(sump, sn, sd, e, pos, carry) ==
  LET full == 2^(B * sn)
      masked == sump - (sump % 2^sd)
      up == masked + carry * 2^sd
      high == MPFR_LIMB_HIGHBIT * 2^(B * (sn - 1))
  IN  IF pos # 0
      THEN IF up >= full
           THEN <<LowLimbs(up - full, sn - 1) + high, e + 1>>
           ELSE <<up, e>>
      ELSE IF carry # 0
           THEN <<(full - 1 - sump) - ((full - 1 - sump) % 2^sd), e>>
           ELSE IF masked = 0
                THEN <<high, e + 1>>
                ELSE <<full - masked, e>>

Step7(w, ws, minexp, cancel, e, err, maxexp, sq, rnd, ubtmd) ==
  LET u == e - sq
      sn == MPFR_PREC2LIMBS(sq)
      sd == sn * B - sq
      sh == cancel % B
      tq == u - minexp
      wi == tq \div B
      td == tq % B
      fi == (e - minexp) \div B - (sn - 1)
      copied == IF sh # 0
                THEN ((LowLimbs(w \div 2^(B * fi), sn) * 2^sh) % 2^(B * sn))
                     + (IF fi # wi THEN Limb(w, wi) \div 2^(B - sh) ELSE 0)
                ELSE LowLimbs(w \div 2^(B * wi), sn)
      rbit0 == IF td >= 1 THEN (Limb(w, wi) \div 2^(td - 1)) % 2
               ELSE Limb(w, wi - 1) \div 2^(B - 1)
      ex == ExactInex(w, wi, td, rbit0, rnd)
      det == TmdDetect(w, wi, td, u, err, rbit0, rnd, ubtmd)
      en == (e - minexp + (B - 1)) \div B
      low == IF sh # 0
             THEN ((LowLimbs(w, en) * 2^sh) % 2^(B * en)) * 2^(B * (sn - en))
             ELSE LowLimbs(w, en) * 2^(B * (sn - en))
      high == u > minexp
      exact == maxexp = MPFR_EXP_MIN
      sump0 == IF high THEN copied ELSE low
      rbit == IF high THEN (IF exact THEN ex[2] ELSE rbit0) ELSE 0
      inex == IF high THEN (IF exact THEN ex[1] ELSE 1) ELSE (IF exact THEN 0 ELSE 1)
      tmd == IF high THEN (IF exact THEN 0 ELSE det.tmd) ELSE (IF exact THEN 0 ELSE 1)
      pos == Limb(sump0, sn - 1) \div 2^(B - 1)
      carry == InitialCarry(rnd, inex, pos, rbit)
      sr == SignAndRound(sump0, sn, sd, e, pos, carry)
  IN  [defined |-> IF high /\ ~exact THEN det.defined ELSE TRUE,
       assertd |-> IF high /\ ~exact THEN det.assertd ELSE TRUE,
       sump |-> sr[1], e |-> sr[2], pos |-> pos, rbit |-> rbit,
       inex |-> inex, tmd |-> tmd, carry |-> carry]

(***************************************************************************)
(* sum_aux, Step 8 (lines 770-875): the TMD is resolved by a second call   *)
(* of sum_raw on a narrower accumulator, which gives the sign sst of the   *)
(* secondary term and from it the ternary value.                           *)
(***************************************************************************)
\* MPN_COPY_INCR (wp + zs, wp, wi), limb k on: an increasing copy
RECURSIVE CopyIncr(_, _, _, _)
CopyIncr(w, zs, wi, k) ==
  IF k >= wi
  THEN w
  ELSE CopyIncr(w - Limb(w, zs + k) * 2^(B * (zs + k)) + Limb(w, k) * 2^(B * (zs + k)),
                zs, wi, k + 1)

\* lines 777-838: the new accumulator of ws limbs and its minexp; the limbs
\* from ws on keep what the first accumulator left there
Step8Setup(w, wq, minexp, maxexp, err, sq, cq) ==
  LET ws == MPFR_PREC2LIMBS(wq - sq)
      tq == err - minexp + 2
      td0 == tq % B
      wi == IF td0 # 0 THEN tq \div B + 1 ELSE tq \div B
      td == IF td0 # 0 THEN B - td0 ELSE 0
      zs == IF err >= minexp THEN ws - wi ELSE ws
      stale == w - LowLimbs(w, ws)
      moved == IF td0 # 0
               THEN ((LowLimbs(w, wi) * 2^td) % 2^(B * wi)) * 2^(B * zs)
               ELSE IF zs > 0
                    THEN LowLimbs(CopyIncr(w, zs, wi, 0), ws) - LowLimbs(CopyIncr(w, zs, wi, 0), zs)
                    ELSE LowLimbs(w, ws)
  IN  IF err >= minexp
      THEN IF zs < 0
           THEN [defined |-> FALSE, assertd |-> FALSE, w |-> w, ws |-> ws, minexp |-> minexp]
           ELSE [defined |-> TRUE, assertd |-> zs < ws /\ tq >= 2,
                 w |-> stale + moved, ws |-> ws, minexp |-> minexp - (zs * B + td)]
      ELSE [defined |-> TRUE, assertd |-> TRUE,
            w |-> stale, ws |-> ws, minexp |-> maxexp - (ws * B - cq)]

\* lines 843-862: the sign of the secondary term.  wp[ws] is the first of
\* the limbs read; it lies above the new accumulator, in what is left of
\* the first one or, when both have the same size, outside the allocation,
\* where its value above is any limb
RECURSIVE AnyLimbFrom(_, _)
AnyLimbFrom(w, k) ==
  IF Limb(w, k) # 0 THEN 1 ELSE IF k > 0 THEN AnyLimbFrom(w, k - 1) ELSE 0

Step8Sst(w, ws, ws0, above, maxexp, tmd, sump, pos) ==
  LET mem == LowLimbs(w, ws0) + above * 2^(B * ws0)
      scan == AnyLimbFrom(mem, ws)
  IN  IF Limb(w, ws - 1) \div 2^(B - 1) # 0
      THEN 0 - 1
      ELSE IF maxexp # MPFR_EXP_MIN
           THEN 1
           ELSE IF scan = 0 /\ tmd = 2
                THEN IF Limb(sump, 0) % 2 # 0
                     THEN (IF pos # 0 THEN 1 ELSE 0 - 1)
                     ELSE (IF pos # 0 THEN 0 - 1 ELSE 1)
                ELSE scan

MPFR_IS_LIKE_RNDD(rnd, sign) ==
  rnd = "RNDD" \/ (rnd = "RNDZ" /\ sign > 0) \/ (rnd = "RNDA" /\ sign < 0)

MPFR_IS_LIKE_RNDU(rnd, sign) ==
  rnd = "RNDU" \/ (rnd = "RNDZ" /\ sign < 0) \/ (rnd = "RNDA" /\ sign > 0)

\* lines 867-871
Step8Inex(rnd, pos, tmd, sst) ==
  LET s == IF pos # 0 THEN 1 ELSE 0 - 1
  IN  IF MPFR_IS_LIKE_RNDD(rnd, s) THEN (IF sst # 0 THEN 0 - 1 ELSE 0)
      ELSE IF MPFR_IS_LIKE_RNDU(rnd, s) THEN (IF sst # 0 THEN 1 ELSE 0)
      ELSE IF tmd = 1 THEN 0 - sst ELSE sst

\* lines 765-769: the ternary value when the TMD does not occur
NoTmdInex(inex, carry) == IF carry # 0 THEN 0 - 1 ELSE inex

(***************************************************************************)
(* The exact value of a number, in units of 2^(-Scale), and the library    *)
(* primitives mpfr_set, mpfr_add and mpfr_check_range, which round an      *)
(* exact value to the precision of the destination.                        *)
(***************************************************************************)
Scale == ExpLow + MaxPrec + MaxSq + MaxWide + 2 * B + 1

Abs(v) == IF v < 0 THEN 0 - v ELSE v

Sgn(v) == IF v < 0 THEN 0 - 1 ELSE IF v > 0 THEN 1 ELSE 0

\* the value of a finite number times 2^Scale
Value(xi) == IF xi.cls = "reg" THEN xi.sign * xi.mant * 2^(xi.exp - xi.prec + Scale) ELSE 0

RECURSIVE SumFrom(_, _)
SumFrom(xs, k) == IF k > Len(xs) THEN 0 ELSE Value(xs[k]) + SumFrom(xs, k + 1)

ExactSum(xs) == SumFrom(xs, 1)

Out(num, inex) == [ret |-> TRUE, num |-> num, inex |-> inex]

\* the call does not return
NoReturn == [ret |-> FALSE, num |-> Num("nan", 1, 0, 1, 0), inex |-> 0]

NaNNum(sq) == Num("nan", 1, 0, sq, 0)

InfNum(s, sq) == Num("inf", s, 0, sq, 0)

ZeroNum(s, sq) == Num("zero", s, 0, sq, 0)

\* the scaled value v # 0 rounded to sq bits in mode rnd, and the ternary value
RoundValue(v, sq, rnd) ==
  LET s == Sgn(v)
      a == Abs(v)
      len == BitLength(a)
      drop == len - sq
      q == IF drop > 0 THEN a \div 2^drop ELSE a * 2^(0 - drop)
      rem == IF drop > 0 THEN a % 2^drop ELSE 0
      half == IF drop > 0 THEN 2^(drop - 1) ELSE 1
      up == rem # 0 /\
            CASE rnd = "RNDN" -> rem > half \/ (rem = half /\ q % 2 = 1)
              [] rnd = "RNDZ" -> FALSE
              [] rnd = "RNDA" -> TRUE
              [] rnd = "RNDU" -> s > 0
              [] OTHER -> s < 0
      m == IF up THEN q + 1 ELSE q
      e == len - Scale
  IN  Out(IF m = 2^sq THEN Num("reg", s, e + 1, sq, 2^(sq - 1)) ELSE Num("reg", s, e, sq, m),
          IF rem = 0 THEN 0 ELSE IF up THEN s ELSE 0 - s)

\* mpfr_set (sum, x, rnd)
mpfr_set(sq, xi, rnd) ==
  IF xi.cls = "reg" THEN RoundValue(Value(xi), sq, rnd) ELSE Out([xi EXCEPT !.prec = sq], 0)

\* mpfr_add (sum, x, y, rnd)
mpfr_add(sq, xi, yi, rnd) ==
  IF xi.cls = "nan" \/ yi.cls = "nan" THEN Out(NaNNum(sq), 0)
  ELSE IF xi.cls = "inf"
       THEN (IF yi.cls = "inf" /\ yi.sign # xi.sign THEN Out(NaNNum(sq), 0)
             ELSE Out(InfNum(xi.sign, sq), 0))
  ELSE IF yi.cls = "inf" THEN Out(InfNum(yi.sign, sq), 0)
  ELSE IF xi.cls = "zero" /\ yi.cls = "zero"
       THEN Out(ZeroNum(IF xi.sign = yi.sign THEN xi.sign
                        ELSE IF rnd = "RNDD" THEN 0 - 1 ELSE 1, sq), 0)
  ELSE IF Value(xi) + Value(yi) = 0
       THEN Out(ZeroNum(IF rnd = "RNDD" THEN 0 - 1 ELSE 1, sq), 0)
  ELSE RoundValue(Value(xi) + Value(yi), sq, rnd)

\* mpfr_check_range (sum, inex, rnd): every exponent of the model is in range
mpfr_check_range(num, inex, rnd) == Out(num, inex)

(***************************************************************************)
(* mpfr_sum, Step 1 (lines 908-968): the scan of the inputs.               *)
(***************************************************************************)
ScanInit ==
  [nan |-> FALSE, rn |-> 0, maxexp |-> MPFR_EXP_MIN, sign_inf |-> 0, sign_zero |-> 0]

\* variant of ScanInput without the test of line 935: an infinity that
\* follows another one is ignored, whatever its sign
ScanInputSameSign(c, xi, rnd) ==
  IF c.nan THEN c
  ELSE IF xi.cls = "nan" THEN [c EXCEPT !.nan = TRUE]
  ELSE IF xi.cls = "inf"
       THEN IF c.sign_inf = 0 THEN [c EXCEPT !.sign_inf = xi.sign] ELSE c
  ELSE IF xi.cls = "zero"
       THEN IF c.rn = 0
            THEN IF c.sign_zero = 0 THEN [c EXCEPT !.sign_zero = xi.sign]
                 ELSE IF xi.sign # c.sign_zero
                      THEN [c EXCEPT !.sign_zero = IF rnd = "RNDD" THEN 0 - 1 ELSE 1]
                      ELSE c
            ELSE c
  ELSE [c EXCEPT !.maxexp = IF xi.exp > @ THEN xi.exp ELSE @, !.rn = @ + 1]

\* variant of ScanInput in which sign_zero is the sign of the last zero read
ScanInputLastZero(c, xi, rnd) ==
  IF c.nan THEN c
  ELSE IF xi.cls = "nan" THEN [c EXCEPT !.nan = TRUE]
  ELSE IF xi.cls = "inf"
       THEN IF c.sign_inf = 0 THEN [c EXCEPT !.sign_inf = xi.sign]
            ELSE IF xi.sign # c.sign_inf THEN [c EXCEPT !.nan = TRUE]
            ELSE c
  ELSE IF xi.cls = "zero"
       THEN IF c.rn = 0 THEN [c EXCEPT !.sign_zero = xi.sign] ELSE c
  ELSE [c EXCEPT !.maxexp = IF xi.exp > @ THEN xi.exp ELSE @, !.rn = @ + 1]

\* lines 918-967: the body of the loop for x[i]
ScanInput(c, xi, rnd) ==
  IF c.nan THEN c
  ELSE IF xi.cls = "nan" THEN [c EXCEPT !.nan = TRUE]
  ELSE IF xi.cls = "inf"
       THEN IF c.sign_inf = 0 THEN [c EXCEPT !.sign_inf = xi.sign]
            ELSE IF xi.sign # c.sign_inf THEN [c EXCEPT !.nan = TRUE]
            ELSE c
  ELSE IF xi.cls = "zero"
       THEN IF c.rn = 0
            THEN IF c.sign_zero = 0 THEN [c EXCEPT !.sign_zero = xi.sign]
                 ELSE IF xi.sign # c.sign_zero
                      THEN [c EXCEPT !.sign_zero = IF rnd = "RNDD" THEN 0 - 1 ELSE 1]
                      ELSE c
            ELSE c
  ELSE [c EXCEPT !.maxexp = IF xi.exp > @ THEN xi.exp ELSE @, !.rn = @ + 1]

RECURSIVE ScanFrom(_, _, _, _)
ScanFrom(c, xs, k, rnd) ==
  IF k > Len(xs) THEN c ELSE ScanFrom(ScanInput(c, xs[k], rnd), xs, k + 1, rnd)

Step1(xs, rnd) == ScanFrom(ScanInit, xs, 1, rnd)

\* variant of RegularSubsetFrom that stops at the first regular input
RECURSIVE RegularSubsetFirst(_, _, _, _, _, _)
RegularSubsetFirst(xs, i, h, rn, sq, rnd) ==
  IF i > Len(xs) THEN NoReturn
  ELSE IF MPFR_IS_SINGULAR(xs[i]) THEN RegularSubsetFirst(xs, i + 1, h, rn, sq, rnd)
  ELSE mpfr_set(sq, xs[i], rnd)

\* variant of RegularSubsetFrom that adds x[0] where x[h] is meant
RECURSIVE RegularSubsetHead(_, _, _, _, _, _)
RegularSubsetHead(xs, i, h, rn, sq, rnd) ==
  IF i > Len(xs) THEN NoReturn
  ELSE IF MPFR_IS_SINGULAR(xs[i]) THEN RegularSubsetHead(xs, i + 1, h, rn, sq, rnd)
  ELSE IF rn = 1 THEN mpfr_set(sq, xs[i], rnd)
  ELSE IF h # 0 THEN mpfr_add(sq, xs[1], xs[i], rnd)
  ELSE RegularSubsetHead(xs, i + 1, i, rn, sq, rnd)

\* lines 997-1012: at most two regular inputs; h is the index of the first
RECURSIVE RegularSubsetFrom(_, _, _, _, _, _)
RegularSubsetFrom(xs, i, h, rn, sq, rnd) ==
  IF i > Len(xs) THEN NoReturn
  ELSE IF MPFR_IS_SINGULAR(xs[i]) THEN RegularSubsetFrom(xs, i + 1, h, rn, sq, rnd)
  ELSE IF rn = 1 THEN mpfr_set(sq, xs[i], rnd)
  ELSE IF h # 0 THEN mpfr_add(sq, xs[h], xs[i], rnd)
  ELSE RegularSubsetFrom(xs, i + 1, i, rn, sq, rnd)

RegularSubset(xs, rn, sq, rnd) == RegularSubsetFrom(xs, 1, 0, rn, sq, rnd)

\* variant of SingularResult that takes every infinity for +Inf
SingularResultPlus(c, sq) ==
  IF c.sign_inf # 0 THEN Out(InfNum(1, sq), 0) ELSE Out(ZeroNum(c.sign_zero, sq), 0)

\* lines 976-995: the result when an input is an infinity or all are zeros
SingularResult(c, sq) ==
  IF c.sign_inf # 0 THEN Out(InfNum(c.sign_inf, sq), 0) ELSE Out(ZeroNum(c.sign_zero, sq), 0)

(***************************************************************************)
(* sum_aux (lines 395-882) and mpfr_sum (lines 886-1016) as functions of   *)
(* their arguments and of ub, what the build makes of the two reads with   *)
(* no defined value: ub.above is the limb found at wp[ws] beyond the       *)
(* allocation, ub.tmd the tmd left by a shift of a limb by its width or    *)
(* more.                                                                   *)
(***************************************************************************)
Undefined(rnd) == [above : 0..MPFR_LIMB_MAX, tmd : IF rnd = "RNDN" THEN 0..2 ELSE 0..1]

\* lines 424-436 with an accumulator of cq + sq + 2 bits only
AccuSizeNoLogn(rn, sq) ==
  LET logn == MPFR_INT_CEIL_LOG2(rn)
      ws == MPFR_PREC2LIMBS(logn + 1 + sq + 2)
  IN  [logn |-> logn, cq |-> logn + 1, ws |-> ws, wq |-> ws * B]

\* lines 424-436: logn, cq and the size of the accumulator
AccuSize(rn, sq) ==
  LET logn == MPFR_INT_CEIL_LOG2(rn)
      ws == MPFR_PREC2LIMBS(logn + 1 + sq + logn + 2)
  IN  [logn |-> logn, cq |-> logn + 1, ws |-> ws, wq |-> ws * B]

\* lines 474-485: the exact sum is zero
ExactZero(sq, rnd) == Out(ZeroNum(IF rnd # "RNDD" THEN 1 ELSE 0 - 1, sq), 0)

\* lines 877-881: the number built by Step 7, with its ternary value
Finish(r7, sq, inex, rnd) ==
  mpfr_check_range(Num("reg", IF r7.pos # 0 THEN 1 ELSE 0 - 1, r7.e, sq,
                       r7.sump \div 2^(MPFR_PREC2LIMBS(sq) * B - sq)), inex, rnd)

\* lines 770-875
Step8(r1, r7, xs, sq, rnd, az, above) ==
  LET s8 == Step8Setup(r1.w, az.wq, r1.minexp, r1.maxexp, r1.err, sq, az.cq)
      r2 == sum_raw(LowLimbs(s8.w, s8.ws), xs, s8.ws, s8.ws * B, s8.minexp, r1.maxexp,
                    az.logn, az.cq, 0)
      sst == Step8Sst(s8.w - LowLimbs(s8.w, s8.ws) + r2.w, s8.ws, az.ws, above,
                      IF r2.status = "ret" THEN r2.maxexp ELSE r1.maxexp,
                      r7.tmd, r7.sump, r7.pos)
  IN  IF ~s8.defined THEN NoReturn
      ELSE IF r2.status = "undef" THEN NoReturn
      ELSE Finish(r7, sq, Step8Inex(rnd, r7.pos, r7.tmd, sst), rnd)

sum_aux(xs, sq, rnd, maxexp, rn, ub) ==
  LET az == AccuSize(rn, sq)
      r1 == sum_raw(0, xs, az.ws, az.wq, maxexp - (az.wq - az.cq), maxexp, az.logn, az.cq, sq + 3)
      r7 == Step7(r1.w, az.ws, r1.minexp, r1.cancel, r1.e, r1.err, r1.maxexp, sq, rnd, ub.tmd)
  IN  IF r1.status = "undef" THEN NoReturn
      ELSE IF r1.status = "ret0" THEN ExactZero(sq, rnd)
      ELSE IF r7.tmd = 0 THEN Finish(r7, sq, NoTmdInex(r7.inex, r7.carry), rnd)
      ELSE Step8(r1, r7, xs, sq, rnd, az, ub.above)

\* variant of FastPath in which n = 1 is n = 2 with x[0] read twice
FastPathTwice(xs, sq, rnd) ==
  IF Len(xs) = 0 THEN Out(ZeroNum(1, sq), 0)
  ELSE mpfr_add(sq, xs[1], xs[Len(xs)], rnd)

\* lines 893-905: n <= 2
FastPath(xs, sq, rnd) ==
  IF Len(xs) = 0 THEN Out(ZeroNum(1, sq), 0)
  ELSE IF Len(xs) = 1 THEN mpfr_set(sq, xs[1], rnd)
  ELSE mpfr_add(sq, xs[1], xs[2], rnd)

mpfr_sum(xs, sq, rnd, ub) ==
  LET c == Step1(xs, rnd)
  IN  IF Len(xs) <= 2 THEN FastPath(xs, sq, rnd)
      ELSE IF c.nan THEN Out(NaNNum(sq), 0)
      ELSE IF c.sign_inf # 0 \/ c.rn = 0 THEN SingularResult(c, sq)
      ELSE IF c.rn <= 2 THEN RegularSubset(xs, c.rn, sq, rnd)
      ELSE sum_aux(xs, sq, rnd, c.maxexp, c.rn, ub)

(***************************************************************************)
(* One call mpfr_sum (sum, x, n, rnd) as a state machine.  pc is the       *)
(* position in the call: "call" (entry), "scanned" (after Step 1), "raw1"  *)
(* and "raw2" (in the loop of the first and of the second sum_raw),        *)
(* "step7", "step8", "sst" (after the second sum_raw), "done" (returned,   *)
(* sum and inex hold the result), "abort" and "hang" (no return).          *)
(***************************************************************************)
VARIABLES x, sq, rnd, pc, scan, acc, r7, sum, inex

vars == <<x, sq, rnd, pc, scan, acc, r7, sum, inex>>

Values == Singulars \cup Regulars

\* the lists of at most MaxN numbers of precision at most MaxPrec
GridLists == UNION {[1..n -> Values] : n \in 0..MaxN}

\* the regular numbers of precision at most MaxWide
WideRegulars ==
  UNION {UNION {{Num("reg", s, e, p, m) : s \in {1, -1}, e \in (0 - ExpLow)..ExpHigh}
                : m \in (2^(p-1))..(2^p - 1)} : p \in 1..MaxWide}

\* the lists of one regular number
Singles == {<<v>> : v \in WideRegulars}

RECURSIVE TrailingZeros(_)
TrailingZeros(a) == IF a % 2 = 1 THEN 0 ELSE 1 + TrailingZeros(a \div 2)

\* the regular number of least precision whose scaled value is v # 0
FromValue(v) ==
  LET a == Abs(v)
      m == a \div 2^TrailingZeros(a)
  IN  Num("reg", Sgn(v), BitLength(a) - Scale, BitLength(m), m)

\* lists of four regular numbers whose sum is zero: 1/2 or 1, two negative
\* numbers below 1 of precision at most MaxWide, and what is left
CancelLists ==
  LET neg == {v \in WideRegulars : v.sign = 0 - 1 /\ v.exp <= 0 /\ v.mant % 2 = 1}
      tri == {t \in {Num("reg", 1, e, 1, 1) : e \in 0..1} \X neg \X neg :
                /\ Value(t[1]) + Value(t[2]) + Value(t[3]) > 0
                /\ FromValue(0 - (Value(t[1]) + Value(t[2]) + Value(t[3]))).prec <= MaxWide}
  IN  {<<t[1], t[2], t[3], FromValue(0 - (Value(t[1]) + Value(t[2]) + Value(t[3])))>> : t \in tri}

\* lists of three regular numbers that span more than two limbs of the
\* accumulator: a power of 2 well above the grid, a number of precision at
\* most 2 in the middle, the least power of 2 of the grid
SpanLists ==
  LET mid == {v \in WideRegulars : v.exp \in 3..5 /\ v.prec <= 2}
  IN  {<<Num("reg", s1, ExpHigh + 3, 1, 1), w, Num("reg", s3, 0 - ExpLow, 1, 1)>> :
         s1 \in {1, -1}, w \in mid, s3 \in {1, -1}}

Inputs == GridLists \cup Singles \cup CancelLists \cup SpanLists

\* the two's complement integer held by the ws limbs w
Signed(w, ws) == IF w >= 2^(B * ws - 1) THEN w - 2^(B * ws) ELSE w

\* v times 2^k
ScaledBy(v, k) == IF k >= 0 THEN v * 2^k ELSE v \div 2^(0 - k)

\* the value of the accumulator (times 2^Scale): Signed(w, ws) * 2^minexp
AccValue(w, ws, minexp) == ScaledBy(Signed(w, ws), minexp + Scale)

\* the value (times 2^Scale) of the bits of x[i] of exponent below maxexp
BitsBelow(xi, maxexp) ==
  IF xi.cls # "reg" \/ maxexp + Scale <= 0 THEN 0
  ELSE xi.sign * (Abs(Value(xi)) % 2^(maxexp + Scale))

RECURSIVE BitsBelowFrom(_, _, _)
BitsBelowFrom(xs, k, maxexp) ==
  IF k > Len(xs) THEN 0 ELSE BitsBelow(xs[k], maxexp) + BitsBelowFrom(xs, k + 1, maxexp)

\* lines 60-82: what a call of sum_raw sums exactly: the accumulator at the
\* call plus the bits of the inputs of exponent below maxexp
SumTarget(w, ws, minexp, maxexp, xs) ==
  AccValue(w, ws, minexp) + BitsBelowFrom(xs, 1, maxexp)

\* line 444: MPFR_TMP_MARK (marker)
TmpMark(a) == [a EXCEPT !.marks = @ + 1]

\* lines 483 and 880: MPFR_TMP_FREE (marker)
TmpFree(a) == [a EXCEPT !.frees = @ + 1]

\* variant of ZeroSumExit that returns without MPFR_TMP_FREE
ZeroSumExitNoFree(a) == a

\* lines 474-485: the exit of sum_aux when the exact sum is zero
ZeroSumExit(a) == TmpFree(a)

\* the precisions of sum: 1..MaxSq, and one that needs two limbs
Precisions == (1..MaxSq) \cup {B + 1}

AccInit ==
  [w |-> 0, ws |-> 0, wq |-> 0, ws0 |-> 0, logn |-> 0, cq |-> 0, prec |-> 0,
   minexp |-> 0, maxexp |-> 0, cancel |-> 0, e |-> 0, err |-> 0, assertd |-> TRUE,
   stores |-> {}, marks |-> 0, frees |-> 0, status |-> "none", target |-> 0]

R7Init ==
  [defined |-> TRUE, assertd |-> TRUE, sump |-> 0, e |-> 0, pos |-> 0, rbit |-> 0,
   inex |-> 0, tmd |-> 0, carry |-> 0]

Init ==
  /\ x \in Inputs
  /\ sq \in Precisions
  /\ rnd \in RndModes
  /\ pc = "call"
  /\ scan = ScanInit
  /\ acc = AccInit
  /\ r7 = R7Init
  /\ sum = NaNNum(sq)
  /\ inex = 0

\* return inex, with the result stored in sum
Return(out) ==
  /\ sum' = out.num
  /\ inex' = out.inex
  /\ pc' = "done"

\* lines 893-905
CallFast ==
  /\ pc = "call"
  /\ Len(x) <= 2
  /\ Return(FastPath(x, sq, rnd))
  /\ UNCHANGED <<x, sq, rnd, scan, acc, r7>>

\* lines 908-968
CallScan ==
  /\ pc = "call"
  /\ Len(x) > 2
  /\ scan' = Step1(x, rnd)
  /\ IF scan'.nan
     THEN Return(Out(NaNNum(sq), 0))
     ELSE pc' = "scanned" /\ UNCHANGED <<sum, inex>>
  /\ UNCHANGED <<x, sq, rnd, acc, r7>>

\* lines 976-995
ReturnSingular ==
  /\ pc = "scanned"
  /\ scan.sign_inf # 0 \/ scan.rn = 0
  /\ Return(SingularResult(scan, sq))
  /\ UNCHANGED <<x, sq, rnd, scan, acc, r7>>

\* lines 997-1012
ReturnFewRegular ==
  /\ pc = "scanned"
  /\ scan.sign_inf = 0
  /\ scan.rn \in 1..2
  /\ Return(RegularSubset(x, scan.rn, sq, rnd))
  /\ UNCHANGED <<x, sq, rnd, scan, acc, r7>>

\* lines 1014 and 416-472: sum_aux up to the first call of sum_raw
EnterSumAux ==
  /\ pc = "scanned"
  /\ scan.sign_inf = 0
  /\ scan.rn > 2
  /\ LET az == AccuSize(scan.rn, sq)
     IN  acc' = TmpMark([AccInit EXCEPT !.ws = az.ws, !.wq = az.wq, !.ws0 = az.ws,
                                        !.logn = az.logn, !.cq = az.cq, !.prec = sq + 3,
                                        !.minexp = scan.maxexp - (az.wq - az.cq),
                                        !.maxexp = scan.maxexp,
                                        !.target = SumTarget(0, az.ws,
                                                     scan.maxexp - (az.wq - az.cq),
                                                     scan.maxexp, x)])
  /\ pc' = "raw1"
  /\ UNCHANGED <<x, sq, rnd, scan, r7, sum, inex>>

\* the state after a pass of the loop of sum_raw that ended as r
PassAcc(r) ==
  [acc EXCEPT !.w = @ - LowLimbs(@, acc.ws) + r.w, !.minexp = r.minexp,
              !.maxexp = r.maxexp, !.cancel = r.cancel, !.e = r.e,
              !.err = r.err, !.assertd = @ /\ r.assertd,
              !.stores = PassStores(x, acc.minexp, acc.maxexp, acc.ws),
              !.status = r.status]

RawStep(r) ==
  CASE r.status = "undef" ->
         /\ acc' = [acc EXCEPT !.assertd = FALSE, !.status = r.status]
         /\ pc' \in {"abort", "hang"}
         /\ UNCHANGED <<sum, inex>>
    [] OTHER ->
         IF r.status = "ret0" /\ pc = "raw1"
         THEN /\ acc' = ZeroSumExit(PassAcc(r))
              /\ Return(ExactZero(sq, rnd))
         ELSE /\ acc' = PassAcc(r)
              /\ pc' = IF r.status = "loop" THEN pc
                       ELSE IF pc = "raw1" THEN "step7" ELSE "sst"
              /\ UNCHANGED <<sum, inex>>

\* lines 98-388: one pass of the loop of sum_raw
RawPass ==
  /\ pc \in {"raw1", "raw2"}
  /\ RawStep(sum_raw_pass(LowLimbs(acc.w, acc.ws), acc.minexp, acc.maxexp, x,
                          acc.ws, acc.wq, acc.logn, acc.cq, acc.prec))
  /\ x' = InputsAfterPass(x, acc.minexp, acc.maxexp, acc.ws)
  /\ UNCHANGED <<sq, rnd, scan, r7>>

\* lines 492-769 and 877-881
Round ==
  /\ pc = "step7"
  /\ \E ubtmd \in 0..(IF rnd = "RNDN" THEN 2 ELSE 1) :
       /\ r7' = Step7(acc.w, acc.ws, acc.minexp, acc.cancel, acc.e, acc.err, acc.maxexp,
                      sq, rnd, ubtmd)
       /\ IF r7'.tmd = 0
          THEN /\ Return(Finish(r7', sq, NoTmdInex(r7'.inex, r7'.carry), rnd))
               /\ acc' = TmpFree(acc)
          ELSE pc' = "step8" /\ UNCHANGED <<sum, inex, acc>>
  /\ UNCHANGED <<x, sq, rnd, scan>>

\* the state after the setup s8 of the second accumulator
ResolveStep(s8) ==
  IF s8.defined
  THEN /\ acc' = [acc EXCEPT !.w = s8.w, !.ws = s8.ws, !.wq = s8.ws * B,
                             !.minexp = s8.minexp, !.prec = 0,
                             !.assertd = @ /\ s8.assertd, !.status = "none",
                             !.target = SumTarget(LowLimbs(s8.w, s8.ws), s8.ws,
                                                  s8.minexp, acc.maxexp, x)]
       /\ pc' = "raw2"
  ELSE /\ acc' = [acc EXCEPT !.assertd = FALSE]
       /\ pc' = "abort"

\* lines 770-841: the accumulator of the second call of sum_raw
Resolve ==
  /\ pc = "step8"
  /\ ResolveStep(Step8Setup(acc.w, acc.wq, acc.minexp, acc.maxexp, acc.err, sq, acc.cq))
  /\ UNCHANGED <<x, sq, rnd, scan, r7, sum, inex>>

\* lines 843-881
Ternary ==
  /\ pc = "sst"
  /\ \E above \in 0..MPFR_LIMB_MAX :
       Return(Finish(r7, sq,
                     Step8Inex(rnd, r7.pos, r7.tmd,
                               Step8Sst(acc.w, acc.ws, acc.ws0, above, acc.maxexp,
                                        r7.tmd, r7.sump, r7.pos)), rnd))
  /\ acc' = TmpFree(acc)
  /\ UNCHANGED <<x, sq, rnd, scan, r7>>

Next ==
  \/ CallFast
  \/ CallScan
  \/ ReturnSingular
  \/ ReturnFewRegular
  \/ EnterSumAux
  \/ RawPass
  \/ Round
  \/ Resolve
  \/ Ternary

Spec == Init /\ [][Next]_vars

(***************************************************************************)
(* What the properties speak of.                                           *)
(***************************************************************************)
Returned == pc = "done"

NoReturnReached == pc \in {"abort", "hang"}

HasNaN(xs) == \E i \in DOMAIN xs : xs[i].cls = "nan"

HasInf(xs, s) == \E i \in DOMAIN xs : xs[i].cls = "inf" /\ xs[i].sign = s

AllFinite(xs) == \A i \in DOMAIN xs : xs[i].cls \in {"zero", "reg"}

AllZeros(xs) == \A i \in DOMAIN xs : xs[i].cls = "zero"

NumRegular(xs) == Cardinality({i \in DOMAIN xs : xs[i].cls = "reg"})

\* the generic path: n >= 3 finite inputs, at least three of them regular
Generic(xs) == AllFinite(xs) /\ NumRegular(xs) >= 3

\* the sign of the zero that an exact sum of zero rounds to
ZeroSign(r) == IF r = "RNDD" THEN 0 - 1 ELSE 1

\* the scaled value v is a number of precision p
Representable(v, p) == v = 0 \/ RoundValue(v, p, "RNDZ").inex = 0

(***************************************************************************)
(* C1: on the generic path the number stored in sum is the correct         *)
(* rounding of the exact sum of the inputs to sq bits in the mode rnd,     *)
(* TMD cases included.                                                     *)
(***************************************************************************)
C1_CorrectRounding ==
  (Returned /\ Generic(x) /\ ExactSum(x) # 0)
    => sum = RoundValue(ExactSum(x), sq, rnd).num

(***************************************************************************)
(* C2: whenever the call returns a finite number for finite inputs, the    *)
(* ternary value has the sign of (returned number - exact sum).            *)
(***************************************************************************)
C2_TernarySign ==
  (Returned /\ AllFinite(x)) => Sgn(inex) = Sgn(Value(sum) - ExactSum(x))

(***************************************************************************)
(* C3: when the exact sum of the inputs is a number of precision sq, the   *)
(* call returns that number with the ternary value 0, whatever the         *)
(* magnitude of the sum and the rounding mode.                             *)
(***************************************************************************)
C3_ExactWhenRepresentable ==
  (Len(x) >= 3 /\ AllFinite(x) /\ ExactSum(x) # 0 /\ Representable(ExactSum(x), sq))
    => /\ ~NoReturnReached
       /\ Returned => (sum.cls = "reg" /\ Value(sum) = ExactSum(x) /\ inex = 0)

(***************************************************************************)
(* C4: for n >= 3 the output is NaN if and only if an input is NaN or the  *)
(* inputs hold infinities of both signs, wherever they stand in the list;  *)
(* the ternary value is then 0.                                            *)
(***************************************************************************)
NaNExpected(xs) == HasNaN(xs) \/ (HasInf(xs, 1) /\ HasInf(xs, 0 - 1))

C4_NaNIff ==
  Len(x) >= 3 =>
    /\ NaNExpected(x) => ~NoReturnReached
    /\ Returned => /\ (sum.cls = "nan") <=> NaNExpected(x)
                   /\ sum.cls = "nan" => inex = 0

C4_Witness ==
  /\ Returned /\ Len(x) >= 3 /\ ~HasNaN(x)
  /\ x[1].cls = "reg" /\ x[2].cls = "inf" /\ x[3].cls = "inf" /\ x[2].sign # x[3].sign
  /\ sum.cls = "nan" /\ inex = 0

(***************************************************************************)
(* C5: for n >= 3, without NaN and with infinities that all have the sign  *)
(* s, the output is the infinity of sign s and the ternary value is 0,     *)
(* whatever the other inputs and the rounding mode.                        *)
(***************************************************************************)
C5_SameSignInfinity ==
  \A s \in {1, 0 - 1} :
    (Len(x) >= 3 /\ ~HasNaN(x) /\ HasInf(x, s) /\ ~HasInf(x, 0 - s))
      => /\ ~NoReturnReached
         /\ Returned => (sum = InfNum(s, sq) /\ inex = 0)

C5_Witness ==
  /\ Returned /\ Len(x) >= 3
  /\ x[1].cls = "reg" /\ x[2].cls = "zero" /\ x[3] = InfNum(0 - 1, 1)
  /\ sum = InfNum(0 - 1, sq) /\ inex = 0

(***************************************************************************)
(* C6: for n >= 3 inputs that are all zeros the output is a zero and the   *)
(* ternary value is 0; its sign is the common sign of the inputs, and if   *)
(* both signs occur it is - under RNDD and + otherwise, in whatever order  *)
(* the zeros come.                                                         *)
(***************************************************************************)
C6_AllZeros ==
  (Len(x) >= 3 /\ AllZeros(x))
    => /\ ~NoReturnReached
       /\ Returned =>
            /\ inex = 0
            /\ sum = ZeroNum(IF \A i \in DOMAIN x : x[i].sign = x[1].sign
                             THEN x[1].sign ELSE ZeroSign(rnd), sq)

C6_Witness ==
  /\ Returned /\ Len(x) >= 3 /\ AllZeros(x) /\ rnd = "RNDD"
  /\ x[1].sign = 1 /\ x[2].sign = 0 - 1 /\ x[3].sign = 1
  /\ sum = ZeroNum(0 - 1, sq) /\ inex = 0

(***************************************************************************)
(* C7: on the generic path, when the exact sum of the inputs is zero the   *)
(* call returns a zero with the ternary value 0; the zero is -0 under      *)
(* RNDD and +0 under the other modes, whatever the signs of the zeros      *)
(* among the inputs.                                                       *)
(***************************************************************************)
C7_ExactZeroSum ==
  (Generic(x) /\ ExactSum(x) = 0)
    => /\ ~NoReturnReached
       /\ Returned => (sum = ZeroNum(ZeroSign(rnd), sq) /\ inex = 0)

(***************************************************************************)
(* C8: a call on a permutation of the list, with the same sq and rnd, ends *)
(* as the call on the list does: it stores the same number and returns the *)
(* same ternary value, or it does not return either.                       *)
(***************************************************************************)
Permuted(xs, p) == [i \in DOMAIN xs |-> xs[p[i]]]

C8_PermutationInvariant ==
  \A p \in Permutations(DOMAIN x) :
    /\ Returned =>
         \E ub \in Undefined(rnd) : mpfr_sum(Permuted(x, p), sq, rnd, ub) = Out(sum, inex)
    /\ NoReturnReached =>
         \E ub \in Undefined(rnd) : ~mpfr_sum(Permuted(x, p), sq, rnd, ub).ret

C8_Witness ==
  /\ Returned /\ Generic(x) /\ Len(x) = 3 /\ sum.cls = "reg"
  /\ r7.tmd # 0 /\ r7.defined /\ r7.assertd
  /\ x[1] # x[2] /\ x[1] # x[3] /\ x[2] # x[3]
  /\ \E ub \in Undefined(rnd) : mpfr_sum(<<x[3], x[1], x[2]>>, sq, rnd, ub) = Out(sum, inex)

(***************************************************************************)
(* C9 as stated: for a list of one regular number x the call stores the    *)
(* value of x and returns 0.                                               *)
(***************************************************************************)
C9_SingleExact ==
  (Returned /\ Len(x) = 1 /\ x[1].cls = "reg")
    => (sum.cls = "reg" /\ Value(sum) = Value(x[1]) /\ inex = 0)

(***************************************************************************)
(* C9 amended: for a list of one regular number x the call stores a number *)
(* of precision sq and returns a ternary value that has the sign of        *)
(* (stored value - x); when x is a number of precision sq the stored value *)
(* is x and the ternary value is 0.                                        *)
(***************************************************************************)
C9_SingleRounded ==
  (Returned /\ Len(x) = 1 /\ x[1].cls = "reg")
    => /\ sum.cls = "reg" /\ sum.prec = sq
       /\ Sgn(inex) = Sgn(Value(sum) - Value(x[1]))
       /\ Representable(Value(x[1]), sq) => (Value(sum) = Value(x[1]) /\ inex = 0)

C9_Witness ==
  /\ Returned /\ Len(x) = 1 /\ x[1].cls = "reg"
  /\ x[1].prec > sq /\ Representable(Value(x[1]), sq)
  /\ Value(sum) = Value(x[1]) /\ inex = 0

(***************************************************************************)
(* C10: if a finite list y is a finite list x with one number replaced by  *)
(* a smaller or equal one, the value stored by the call on y, with the     *)
(* same sq and rnd, is at most the value stored by the call on x.          *)
(***************************************************************************)
C10_Monotone ==
  (Returned /\ AllFinite(x)) =>
    \A i \in DOMAIN x : \A v \in Values :
      (v.cls \in {"zero", "reg"} /\ Value(v) <= Value(x[i])) =>
        \A ub \in {u \in Undefined(rnd) : u.above = 0} :
          mpfr_sum([x EXCEPT ![i] = v], sq, rnd, ub).ret =>
            Value(mpfr_sum([x EXCEPT ![i] = v], sq, rnd, ub).num) <= Value(sum)

(***************************************************************************)
(* C11: for n >= 3 finite inputs of which one is regular the call ends as  *)
(* mpfr_set on that input does, and when two are regular as mpfr_add on    *)
(* these two, in their order in the list, does; the zeros of the list      *)
(* change nothing, and the loop over the inputs always ends by a return.   *)
(***************************************************************************)
RegularInputs(xs) == SelectSeq(xs, LAMBDA xi : xi.cls = "reg")

FewRegular(xs) == Len(xs) >= 3 /\ AllFinite(xs) /\ NumRegular(xs) \in 1..2

C11_FewRegular ==
  FewRegular(x) =>
    /\ ~NoReturnReached
    /\ RegularSubset(x, NumRegular(x), sq, rnd).ret
    /\ Returned =>
         Out(sum, inex) =
           IF NumRegular(x) = 1
           THEN mpfr_set(sq, RegularInputs(x)[1], rnd)
           ELSE mpfr_add(sq, RegularInputs(x)[1], RegularInputs(x)[2], rnd)

C11_Witness ==
  /\ Returned /\ FewRegular(x) /\ NumRegular(x) = 2
  /\ x[1].cls = "zero" /\ x[2] # x[3]
  /\ sum.cls = "reg" /\ inex # 0

(***************************************************************************)
(* C12 as stated: for the inputs +1, +1, +1 with sq = 2 and RNDN the call  *)
(* stores 4 (exponent of 2^2, mantissa 10 in binary) and returns +1.       *)
(***************************************************************************)
ThreeOnes ==
  /\ x = <<Num("reg", 1, 1, 1, 1), Num("reg", 1, 1, 1, 1), Num("reg", 1, 1, 1, 1)>>
  /\ sq = 2
  /\ rnd = "RNDN"

C12_ThreeOnesGiveFour ==
  (ThreeOnes /\ Returned) => (sum = Num("reg", 1, 3, 2, 2) /\ inex = 1)

(***************************************************************************)
(* C12 amended: for the inputs +1, +1, +1 with sq = 2 and RNDN the call    *)
(* returns, stores 3 (exponent of 2^1, mantissa 11 in binary) and returns  *)
(* the ternary value 0: 3 is a number of precision 2.                      *)
(***************************************************************************)
C12_ThreeOnesGiveThree ==
  ThreeOnes =>
    /\ ~NoReturnReached
    /\ Returned => (sum = Num("reg", 1, 2, 2, 3) /\ inex = 0)

C12_Witness ==
  /\ ThreeOnes /\ Returned
  /\ acc.maxexp = MPFR_EXP_MIN /\ r7.rbit = 0 /\ r7.carry = 0 /\ r7.pos = 1
  /\ Value(sum) = ExactSum(x)

(***************************************************************************)
(* C13: under RNDN, when the exact sum of the inputs of the generic path   *)
(* is halfway between two consecutive numbers of precision sq, the call    *)
(* stores the one of the two whose last mantissa bit is 0, and the ternary *)
(* value has the sign of (stored value - exact sum).                       *)
(***************************************************************************)
Halfway(v, p) == v # 0 /\ ~Representable(v, p) /\ Representable(v, p + 1)

C13_HalfwayToEven ==
  (Returned /\ rnd = "RNDN" /\ Generic(x) /\ Halfway(ExactSum(x), sq)) =>
    /\ sum = RoundValue(ExactSum(x), sq, "RNDN").num
    /\ Sgn(inex) = Sgn(Value(sum) - ExactSum(x))

C15_ScratchReleased ==
  Returned =>
    IF Len(x) >= 3 /\ Generic(x)
    THEN acc.marks = 1 /\ acc.frees = 1
    ELSE acc.marks = 0 /\ acc.frees = 0

C15_Witness ==
  /\ Returned /\ Generic(x) /\ sum.cls = "zero"
  /\ acc.marks = 1 /\ acc.frees = 1

(***************************************************************************)
(* C16: when sum_aux returns a nonzero result the mantissa it has built    *)
(* in the sn limbs of sum is normalized: its most significant bit is 1     *)
(* and the sd = sn * GMP_NUMB_BITS - sq trailing bits of its least         *)
(* significant limb are 0.                                                 *)
(***************************************************************************)
Normalized(sump, p) ==
  /\ sump < 2^(B * MPFR_PREC2LIMBS(p))
  /\ Limb(sump, MPFR_PREC2LIMBS(p) - 1) >= MPFR_LIMB_HIGHBIT
  /\ sump % 2^(MPFR_PREC2LIMBS(p) * B - p) = 0

C16_Normalized ==
  (Returned /\ Generic(x) /\ sum.cls = "reg") => Normalized(r7.sump, sq)

C16_Witness ==
  /\ Returned /\ Generic(x) /\ sum.cls = "reg"
  /\ r7.defined /\ r7.assertd /\ acc.assertd
  /\ MPFR_PREC2LIMBS(sq) = 2
  /\ r7.pos = 0 /\ r7.carry = 0 /\ r7.e = acc.e + 1
  /\ Normalized(r7.sump, sq)

(***************************************************************************)
(* C17: on finite inputs every call of sum_raw returns, so the call of     *)
(* mpfr_sum never reaches a point from which it does not return; this      *)
(* includes an exact accumulator (maxexp2 = MPFR_EXP_MIN) with e < 0.      *)
(***************************************************************************)
C17_SumRawReturns == AllFinite(x) => ~NoReturnReached

(***************************************************************************)
(* C18: when sum_raw has returned a nonzero number of cancelled bits, the  *)
(* exponents it has written satisfy err <= e - prec, whatever the sign of  *)
(* e (prec = sq + 3 in the first call, 0 in the second).                   *)
(***************************************************************************)
RawReturned == pc \in {"step7", "sst"} /\ acc.cancel # 0

C18_EnoughPrecision == RawReturned => acc.err <= acc.e - acc.prec


\* the value (times 2^Scale) held by the accumulator after the last pass
AccNow == AccValue(LowLimbs(acc.w, acc.ws), acc.ws, acc.minexp)

\* lines 136-149, 262-268: no pass moves maxexp2 from MPFR_EXP_MIN when every
\* regular input lies wholly at or above minexp
NothingBelow(xs, minexp) ==
  \A i \in 1..Len(xs) : xs[i].cls = "reg" => xs[i].exp - xs[i].prec >= minexp

\* a call of sum_raw has returned 0
RawReturnedZero == acc.status = "ret0"

\* a call of sum_raw has returned a positive number of cancelled bits
RawReturnedCancel == acc.status = "ret"

\* C19: sum_raw returns 0 exactly when the accumulator is entirely zero with
\* nothing of the inputs left below it, and then the exact value being summed
\* is zero; in every other returning case it returns cancel >= 1 with a
\* nonzero accumulator and has written e, err and the new maxexp.
C19_ZeroReturn ==
  /\ RawReturnedZero =>
       /\ LowLimbs(acc.w, acc.ws) = 0
       /\ acc.cancel = 0
       /\ NothingBelow(x, acc.minexp)
       /\ acc.target = 0
  /\ RawReturnedCancel =>
       /\ LowLimbs(acc.w, acc.ws) # 0
       /\ acc.cancel >= 1
       /\ acc.maxexp = MPFR_EXP_MIN <=> NothingBelow(x, acc.minexp)
       /\ acc.e = acc.minexp + acc.wq - acc.cancel
       /\ acc.err = acc.maxexp + acc.logn

C19_Witness ==
  /\ RawReturnedZero
  /\ Len(x) = 3
  /\ AllFinite(x)
  /\ RegularInputs(x) = x

\* |v| < 2^k for an integer v scaled by 2^Scale
Below(v, k) == IF k + Scale >= 0 THEN Abs(v) < 2^(k + Scale) ELSE v = 0

\* C20: when sum_raw returns cancel >= 1, the exact value being summed
\* differs from the accumulator by less than 2^err, by nothing when no input
\* bit is left below the window (maxexp = MPFR_EXP_MIN), and the accumulator
\* has magnitude in [2^(e-1), 2^e].
C20_ErrorBound ==
  RawReturnedCancel =>
    /\ Below(acc.target - AccNow, acc.err)
    /\ acc.maxexp = MPFR_EXP_MIN => acc.target = AccNow
    /\ Abs(AccNow) >= ScaledBy(1, acc.e - 1 + Scale)
    /\ Abs(AccNow) <= ScaledBy(1, acc.e + Scale)



\* the integer, in units of 2^minexp, formed by the bits of |x[i]| whose
\* exponents lie in [minexp, maxexp), with the sign of x[i]
BitsBetween(xi, minexp, maxexp) ==
  IF xi.cls # "reg" THEN 0
  ELSE xi.sign * ((Abs(Value(xi)) % 2^(maxexp + Scale)) \div 2^(minexp + Scale))

RECURSIVE BitsBetweenFrom(_, _, _, _)
BitsBetweenFrom(xs, k, minexp, maxexp) ==
  IF k > Len(xs) THEN 0
  ELSE BitsBetween(xs[k], minexp, maxexp) + BitsBetweenFrom(xs, k + 1, minexp, maxexp)

\* the accumulator after the for loop of the pass about to run
FoldedNow ==
  FoldFrom([w |-> LowLimbs(acc.w, acc.ws), maxexp2 |-> MPFR_EXP_MIN], x, 1,
           acc.minexp, acc.maxexp, acc.ws).w

\* a pass of the loop of sum_raw is about to run, on a proper window
PassReady == pc \in {"raw1", "raw2"} /\ acc.maxexp > acc.minexp

\* C21: one pass of the fold loop changes the accumulator, modulo 2^wq, by
\* the sum over the regular inputs of sign(x[i]) times the integer formed by
\* the bits of |x[i]| of exponent in [minexp, maxexp), in units of 2^minexp;
\* the other bits contribute nothing.
C21_FoldAddsWindowBits ==
  PassReady =>
    FoldedNow = (LowLimbs(acc.w, acc.ws)
                 + BitsBetweenFrom(x, 1, acc.minexp, acc.maxexp)) % 2^(B * acc.ws)

\* an input truncated at the top inside a limb (tr # 0) and shifted inside a
\* limb (vd # 0) is folded, another reaches below the window (vd < 0)
C21_Witness ==
  /\ PassReady
  /\ \E i \in 1..Len(x) :
       /\ FoldAdds(x[i], acc.minexp, acc.maxexp, acc.ws)
       /\ x[i].exp > acc.maxexp
       /\ (x[i].exp - acc.maxexp) % B # 0
       /\ ShiftCount(x[i], acc.minexp) # 0
  /\ \E i \in 1..Len(x) :
       /\ FoldAdds(x[i], acc.minexp, acc.maxexp, acc.ws)
       /\ x[i].exp - MPFR_PREC2LIMBS(x[i].prec) * B - acc.minexp < 0
  /\ \E i \in 1..Len(x) :
       /\ FoldAdds(x[i], acc.minexp, acc.maxexp, acc.ws)
       /\ x[i].exp - MPFR_PREC2LIMBS(x[i].prec) * B - acc.minexp >= 0


\* the exact signed sum, in units of 2^minexp, of the accumulator and of the
\* blocks that the pass about to run adds to it
ExactFold ==
  Signed(LowLimbs(acc.w, acc.ws), acc.ws) + BitsBetweenFrom(x, 1, acc.minexp, acc.maxexp)

\* C22: in every fold pass of every iteration of sum_raw the accumulator does
\* not overflow: the exact signed sum of its previous value and of the added
\* blocks is below 2^(wq-1) in absolute value, so the accumulator holds that
\* sum and not merely its residue modulo 2^wq.
C22_NoOverflow ==
  PassReady =>
    /\ Abs(ExactFold) < 2^(B * acc.ws - 1)
    /\ Signed(FoldedNow, acc.ws) = ExactFold
    /\ \A k \in 1..Len(x) :
         Abs(Signed(LowLimbs(acc.w, acc.ws), acc.ws)
             + BitsBetweenFrom(SubSeq(x, 1, k), 1, acc.minexp, acc.maxexp))
           < 2^(B * acc.ws - 1)



\* C23: at the start of every iteration of the loop of sum_raw maxexp > minexp
\* holds, and an iteration that does not return leaves in maxexp a valid
\* exponent (maxexp2 # MPFR_EXP_MIN), below the previous maxexp and at most
\* the previous minexp.
C23_ProperWindow ==
  pc \in {"raw1", "raw2"} =>
    /\ acc.maxexp > acc.minexp
    /\ acc.status = "loop" => acc.maxexp # MPFR_EXP_MIN


\* a pass takes the cancellation branch of lines 349-373: the accumulator
\* left by the for loop is not zero and the call does not return
ShiftTaken == PassReady /\ FoldedNow # 0 /\ acc'.status \in {"loop", "undef"}

\* the accumulator after the step keeps at least two leading sign bits
TwoSignBits ==
  LET v == Signed(LowLimbs(acc'.w, acc.ws), acc.ws)
  IN  0 - 2^(B * acc.ws - 2) <= v /\ v < 2^(B * acc.ws - 2)

BitAt(w, minexp, k) == IF k < minexp THEN 0 ELSE (w \div 2^(k - minexp)) % 2

\* the bits of exponents lo..hi of the accumulator are all equal to b
RunOf(w, minexp, lo, hi, b) == \A k \in lo..hi : BitAt(w, minexp, k) = b

\* Step 7 is about to run on an inexact accumulator with u = e - sq > minexp
TmdCase ==
  /\ pc = "step7"
  /\ acc.maxexp # MPFR_EXP_MIN
  /\ acc.e - sq > acc.minexp

\* the value of tmd that Step 7 computes, with ubtmd where it is undefined
TmdOf(ubtmd) ==
  Step7(acc.w, acc.ws, acc.minexp, acc.cancel, acc.e, acc.err, acc.maxexp,
        sq, rnd, ubtmd).tmd

\* the rounding bit: the bit of exponent u - 1
RbitNow == BitAt(LowLimbs(acc.w, acc.ws), acc.minexp, acc.e - sq - 1)

\* the d - 1 bits below the rounding bit, of exponents err..u-2, are all b
RunNow(b) == RunOf(LowLimbs(acc.w, acc.ws), acc.minexp, acc.err, acc.e - sq - 2, b)

\* tmd as the specification describes it: flagged when the run is uniform,
\* 1 if rbit differs from the run, 2 under round-to-nearest if it matches
TmdAsStated ==
  IF \E b \in {0, 1} : RunNow(b)
  THEN IF RunNow(1 - RbitNow) THEN 1 ELSE IF rnd = "RNDN" THEN 2 ELSE 1
  ELSE 0

\* C25: with an inexact first accumulator and u = e - sq > minexp, tmd # 0
\* exactly when the d - 1 bits below the rounding bit (d = u - err) are all
\* equal, tmd = 1 if rbit differs from that run and tmd = 2 only under
\* round-to-nearest when rbit matches it.
C25_TmdAsStated ==
  TmdCase => \A ubtmd \in 0..(IF rnd = "RNDN" THEN 2 ELSE 1) : TmdOf(ubtmd) = TmdAsStated


\* line 440: the size of the temporary area, set from the first accumulator
TempSize == MPFR_PREC2LIMBS(acc.ws0 * B - acc.cq + B - 1)

\* lines 131-199 and 258: the limb counts of the fold of x[i] when it reaches
\* below the accumulator (vd < 0): the block shifted right into tp has at
\* most ts limbs, the block added has 0 < vs <= ds = ws
FitsLow(xi, minexp, maxexp, ws, ts) ==
  LET xe == xi.exp
      vs0 == MPFR_PREC2LIMBS(xi.prec)
      vdn == 0 - (xe - vs0 * B - minexp)
      vds == vdn \div B
      vs1 == vs0 - vds
      vd == vdn - vds * B
      vs2 == IF xe > maxexp THEN vs1 - (xe - maxexp) \div B ELSE vs1
      tr0 == IF xe > maxexp THEN (xe - maxexp) % B ELSE 0
      vs3 == IF vd # 0 /\ tr0 + vd >= B THEN vs2 - 1 ELSE vs2
  IN  \/ xe <= minexp
      \/ /\ vs1 > 0
         /\ vs2 > 0
         /\ vd # 0 => vs2 <= ts
         /\ 0 < vs3 /\ vs3 <= ws

\* lines 200-258 without the two continue statements of lines 213-214 and
\* 225-226
FitsHighNoSkip(xi, minexp, maxexp, ws, ts) ==
  LET xe == xi.exp
      vs0 == MPFR_PREC2LIMBS(xi.prec)
      vd0 == xe - vs0 * B - minexp
      vds == vd0 \div B
      ds == ws - vds
      vd == vd0 - vds * B
      vs1 == IF xe > maxexp THEN vs0 - (xe - maxexp) \div B ELSE vs0
      tr0 == IF xe > maxexp THEN (xe - maxexp) % B ELSE 0
      carried == vd # 0 /\ tr0 - vd < 0
      vs2 == IF carried THEN vs1 + 1 ELSE vs1
  IN  /\ vd # 0 => vs1 <= ts
      /\ carried => vs1 + 1 <= ts
      /\ 0 < vs2 /\ vs2 <= ds

\* lines 200-258: the same when the least significant bit of x[i] is in or
\* above the accumulator (vd >= 0): the block shifted left into tp has at
\* most ts limbs, its carry limb included
FitsHigh(xi, minexp, maxexp, ws, ts) ==
  LET xe == xi.exp
      vs0 == MPFR_PREC2LIMBS(xi.prec)
      vd0 == xe - vs0 * B - minexp
      vds == vd0 \div B
      ds == ws - vds
      vd == vd0 - vds * B
      vs1 == IF xe > maxexp THEN vs0 - (xe - maxexp) \div B ELSE vs0
      tr0 == IF xe > maxexp THEN (xe - maxexp) % B ELSE 0
      carried == vd # 0 /\ tr0 - vd < 0
      vs2 == IF carried THEN vs1 + 1 ELSE vs1
  IN  \/ ds <= 0
      \/ vs1 <= 0
      \/ /\ vd # 0 => vs1 <= ts
         /\ carried => vs1 + 1 <= ts
         /\ 0 < vs2 /\ vs2 <= ds

\* lines 111-258: the blocks of x[i] fit in tp and in the accumulator
FoldFits(xi, minexp, maxexp, ws, ts) ==
  \/ MPFR_IS_SINGULAR(xi)
  \/ IF xi.exp - MPFR_PREC2LIMBS(xi.prec) * B - minexp < 0
     THEN FitsLow(xi, minexp, maxexp, ws, ts)
     ELSE FitsHigh(xi, minexp, maxexp, ws, ts)

SstOf(above) ==
  Step8Sst(acc.w, acc.ws, acc.ws0, above, acc.maxexp, r7.tmd, r7.sump, r7.pos)

\* C27: the value sst computed after the second call of sum_raw is the sign
\* of the exact secondary term (the value that the call sums: the kept bits
\* of the first accumulator plus the input bits below it); sst = 0 exactly
\* when that term is zero, also when the call returns 0 without writing
\* maxexp.  The halfway case (term zero and tmd = 2), where the code replaces
\* sst on purpose, is left out.
C27_SstIsSign ==
  pc = "sst" /\ ~(acc.target = 0 /\ r7.tmd = 2) =>
    \A above \in 0..MPFR_LIMB_MAX : SstOf(above) = Sgn(acc.target)


\* lines 849-851: the indices of the limbs read by the loop
\* do sst = wp[ws] != 0; while (sst == 0 && ws-- > 0), from index k down
RECURSIVE ScanReads(_, _)
ScanReads(mem, k) ==
  {k} \cup (IF Limb(mem, k) # 0 \/ k = 0 THEN {} ELSE ScanReads(mem, k - 1))

\* lines 843-851: the indices of the limbs of wp read to determine sst
SstReads(w, ws, ws0, above, maxexp) ==
  {ws - 1} \cup
    (IF Limb(w, ws - 1) \div 2^(B - 1) # 0 \/ maxexp # MPFR_EXP_MIN
     THEN {}
     ELSE ScanReads(LowLimbs(w, ws0) + above * 2^(B * ws0), ws))

\* C28: in Step 8 every limb of the accumulator read to determine sst has an
\* index in [0, ws), ws being the size of the Step 8 accumulator.
C28_SstReadsInside ==
  pc = "sst" =>
    \A above \in 0..MPFR_LIMB_MAX :
      SstReads(acc.w, acc.ws, acc.ws0, above, acc.maxexp) \subseteq 0..(acc.ws - 1)

(***************************************************************************)
(* The state in which sum_aux starts its work: mpfr_sum calls it at line   *)
(* 1014 with the rn and maxexp of Step 1, and Step 2 (lines 416-436) sets  *)
(* logn, cq, ws and wq before the first call of sum_raw.                   *)
(***************************************************************************)
SumAuxEntered == pc = "raw1" /\ acc.status = "none"

\* the exponents of the regular numbers of xs
RegularExps(xs) == {xs[i].exp : i \in {j \in DOMAIN xs : xs[j].cls = "reg"}}

\* k is ceil(log2(rn)): the least k with 2^k >= rn
IsCeilLog2(k, rn) == k >= 0 /\ 2^k >= rn /\ (k > 0 => 2^(k - 1) < rn)

\* C29: on entry to sum_aux all inputs are finite, rn is the number of
\* regular inputs with 3 <= rn <= n, maxexp is the largest exponent of the
\* regular inputs, logn = ceil(log2(rn)) >= 2, cq = logn + 1, and
\* wq - cq - sq >= 4 with wq = ws * GMP_NUMB_BITS.
C29_SumAuxEntry ==
  SumAuxEntered =>
    /\ AllFinite(x)
    /\ scan.rn = Len(RegularInputs(x))
    /\ 3 <= scan.rn /\ scan.rn <= Len(x)
    /\ scan.maxexp \in RegularExps(x)
    /\ \A ex \in RegularExps(x) : ex <= scan.maxexp
    /\ acc.maxexp = scan.maxexp
    /\ IsCeilLog2(acc.logn, scan.rn)
    /\ acc.logn >= 2
    /\ acc.cq = acc.logn + 1
    /\ acc.wq = acc.ws * B
    /\ acc.wq - acc.cq - sq >= 4

\* sum_aux is entered with inputs of several exponents, the largest not first
C29_Witness ==
  /\ SumAuxEntered
  /\ x[1].cls = "reg"
  /\ x[1].exp < scan.maxexp
  /\ sq = MaxSq

(***************************************************************************)
(* The earlier window implementation of mpfr_sum (src/unnamed/part_001).   *)
(* Its Steps 1 and 2 (lines 40-214) are those of mpfr_sum and sum_aux      *)
(* above; the loop of Steps 3 to 6 (lines 216-527) is in the function      *)
(* itself and works on the accumulator, maxexp and cq.  In the fold,       *)
(* a = [w, maxexp2, ok]: ok becomes FALSE when an mpn function is called   *)
(* on a count below 1 or on limbs outside its area.                        *)
(***************************************************************************)
\* lines 246-337: p[i] reaches below the least significant bit of the accumulator
OldFoldLow(a, xi, minexp, maxexp, ws) ==
  LET pe == xi.exp
      pq == xi.prec
      vs0 == MPFR_PREC2LIMBS(pq)
      vdn == 0 - (pe - vs0 * B - minexp)
      vds == vdn \div B
      vs1 == vs0 - vds
      vp1 == MPFR_MANT(xi) \div 2^(B * vds)
      vd == vdn - vds * B
      vs2 == IF pe > maxexp THEN vs1 - (pe - maxexp) \div B ELSE vs1
      tr0 == IF pe > maxexp THEN (pe - maxexp) % B ELSE 0
      tr1 == tr0 + vd
      vs3 == IF tr1 >= B THEN vs2 - 1 ELSE vs2
      tr2 == IF tr1 >= B THEN tr1 - B ELSE tr1
      t == LowLimbs(vp1, vs2) \div 2^vd          \* mpn_rshift (tp, vp, vs, vd)
      tm == IF tr2 # 0 THEN MaskLimb(t, vs3 - 1, B - tr2) ELSE t
      m2 == IF pe - pq < minexp THEN minexp ELSE a.maxexp2
      nadd == IF vd # 0 THEN vs3 ELSE IF tr0 # 0 THEN vs2 - 1 ELSE vs2
  IN  IF pe <= minexp
      THEN [a EXCEPT !.maxexp2 = IF pe > @ THEN pe ELSE @]
      ELSE IF vs2 < 1 \/ nadd < 1 \/ nadd > ws
           THEN [a EXCEPT !.maxexp2 = m2, !.ok = FALSE]
           ELSE IF vd # 0
                THEN [a EXCEPT !.w = AddBlock(a.w, ws, 0, tm, vs3, 0, xi.sign),
                               !.maxexp2 = m2]
                ELSE [a EXCEPT !.w = AddBlock(a.w, ws, 0, vp1, vs2, tr0, xi.sign),
                               !.maxexp2 = m2]

\* lines 338-420: the least significant bit of p[i] is in or above the
\* accumulator.  When p[i] is shifted (vd # 0) the limb tp[vs] that
\* mpn_lshift carries out is stored and masked, and then left out of the
\* addition, which takes vs limbs with tr = 0.
OldFoldHigh(a, xi, minexp, maxexp, ws) ==
  LET pe == xi.exp
      vs0 == MPFR_PREC2LIMBS(xi.prec)
      vd0 == pe - vs0 * B - minexp
      vds == vd0 \div B
      ds == ws - vds
      vd == vd0 - vds * B
      tr0 == IF pe > maxexp THEN (pe - maxexp) % B ELSE 0
      less == pe > maxexp /\ (tr0 > vd \/ (vd # 0 /\ tr0 = vd))
      vs1 == (IF pe > maxexp THEN vs0 - (pe - maxexp) \div B ELSE vs0)
               - (IF less THEN 1 ELSE 0)
      tr == IF less THEN tr0 - B ELSE tr0
  IN  IF ds <= 0
      THEN a
      ELSE IF vs1 < 1 \/ vs1 > ds
           THEN [a EXCEPT !.ok = FALSE]
           ELSE IF vd # 0
                THEN [a EXCEPT !.w = AddBlock(a.w, ws, vds,
                                              LowLimbs(LowLimbs(MPFR_MANT(xi), vs1) * 2^vd, vs1),
                                              vs1, 0, xi.sign)]
                ELSE IF tr # 0
                     THEN [a EXCEPT !.w = AddBlock(a.w, ws, vds, MPFR_MANT(xi), vs1 + 1,
                                                   0 - tr, xi.sign)]
                     ELSE [a EXCEPT !.w = AddBlock(a.w, ws, vds, MPFR_MANT(xi), vs1, 0,
                                                   xi.sign)]

\* lines 228-420: the body of the for loop for p[i]
OldFoldInput(a, xi, minexp, maxexp, ws) ==
  IF MPFR_IS_SINGULAR(xi) \/ ~a.ok
  THEN a
  ELSE IF xi.exp - MPFR_PREC2LIMBS(xi.prec) * B - minexp < 0
       THEN OldFoldLow(a, xi, minexp, maxexp, ws)
       ELSE OldFoldHigh(a, xi, minexp, maxexp, ws)

\* the one element of a set of one element
The(S) == CHOOSE v \in S : TRUE

\* lines 227-420: the for loop over p[i], i = k..n-1; b is the accumulator
\* after p[k]
RECURSIVE OldFoldFrom(_, _, _, _, _, _)
OldFoldFrom(a, xs, k, minexp, maxexp, ws) ==
  IF k > Len(xs)
  THEN a
  ELSE The({OldFoldFrom(b, xs, k + 1, minexp, maxexp, ws) :
              b \in {OldFoldInput(a, xs[k], minexp, maxexp, ws)}})

\* lines 441-445: the number of limbs equal to msl from index wi down
RECURSIVE OldRun(_, _, _)
OldRun(w, wi, msl) ==
  IF wi >= 0 /\ Limb(w, wi) = msl THEN 1 + OldRun(w, wi - 1, msl) ELSE 0

\* the state in which a pass of the loop ends: status "loop" (the body of
\* while (1) starts again) or "undef" (no defined behaviour)
OldState(st, w, maxexp, cq, cancel, e, err, ok) ==
  [status |-> st, w |-> w, maxexp |-> maxexp, cq |-> cq, cancel |-> cancel,
   e |-> e, err |-> err, assertd |-> ok]

\* lines 477-522, Step 6: the shift of the accumulator when err > q - 3;
\* otherwise the end of the body of while (1) is reached with nothing done
OldStep6(a, cancel, minexp, maxexp, ws, wq, logn, cq, sumq) ==
  LET e == maxexp + cq - cancel
      q == e - sumq   \* sumq is the sq of the code, the precision of sum
      err == a.maxexp2 + logn
      diffexp == IF err - e < 0 THEN 0 ELSE err - e
      shiftq == cancel - 2 - diffexp
  IN  IF err > q - 3
      THEN IF shiftq < 0
           THEN OldState("undef", a.w, maxexp, cq, cancel, e, err, FALSE)
           ELSE OldState("loop", (a.w * 2^shiftq) % 2^(B * ws), a.maxexp2,
                         wq - shiftq + (minexp - a.maxexp2), cancel, e, err,
                         /\ minexp - a.maxexp2 < shiftq
                         /\ wq - shiftq + (minexp - a.maxexp2) < wq)
      ELSE OldState("loop", a.w, maxexp, cq, cancel, e, err, TRUE)

\* lines 428-475, Steps 4 and 5: run limbs equal to top = 0 or MPFR_LIMB_MAX
\* lead the accumulator; clz0 is what count_leading_zeros leaves for its
\* undefined case, the limb 0
OldStep4(a, run, top, minexp, maxexp, ws, wq, logn, cq, sumq, clz0) ==
  LET wi == ws - 1 - run
      msl == IF Limb(a.w, wi) >= MPFR_LIMB_HIGHBIT
             THEN MPFR_LIMB_MAX - Limb(a.w, wi) ELSE Limb(a.w, wi)
  IN  IF wi < 0
      THEN IF top = 0
           THEN OldState("loop", a.w, a.maxexp2, logn + 1, B * run, 0, 0, TRUE)
           ELSE OldStep6(a, B * run, minexp, maxexp, ws, wq, logn, cq, sumq)
      ELSE OldStep6(a, B * run + (IF msl = 0 THEN clz0 ELSE count_leading_zeros(msl)),
                    minexp, maxexp, ws, wq, logn, cq, sumq)

\* lines 422-445
OldAfterFold(a, top, minexp, maxexp, ws, wq, logn, cq, sumq, clz0) ==
  IF ~a.ok
  THEN OldState("undef", a.w, maxexp, cq, 0, 0, 0, FALSE)
  ELSE OldStep4(a, IF top = 0 \/ top = MPFR_LIMB_MAX THEN OldRun(a.w, ws - 1, top) ELSE 0,
                top, minexp, maxexp, ws, wq, logn, cq, sumq, clz0)

OldFolded(a, minexp, maxexp, ws, wq, logn, cq, sumq, clz0) ==
  OldAfterFold(a, Limb(a.w, ws - 1), minexp, maxexp, ws, wq, logn, cq, sumq, clz0)

\* an mpfr_exp_t sum that left the range MPFR_EXP_MIN..-MPFR_EXP_MIN-1,
\* reduced into it as two's complement arithmetic does
WrapExp(v) == ((v - MPFR_EXP_MIN) % (0 - 2 * MPFR_EXP_MIN)) + MPFR_EXP_MIN

\* lines 216-527: one pass of the body of while (1).  After Step 5 has set
\* maxexp to a maxexp2 still MPFR_EXP_MIN, the sum maxexp + cq - wq of line
\* 218 is below the least mpfr_exp_t: the build either traps (trapv) or
\* goes on with the reduced sum.
old_pass(w, maxexp, cq, xs, ws, wq, logn, sumq, clz0, trapv) ==
  IF maxexp + cq - wq < MPFR_EXP_MIN /\ trapv
  THEN OldState("undef", w, maxexp, cq, 0, 0, 0, TRUE)
  ELSE The({OldFolded(a, WrapExp(maxexp + cq - wq), maxexp, ws, wq, logn, cq, sumq, clz0) :
              a \in {OldFoldFrom([w |-> w, maxexp2 |-> MPFR_EXP_MIN, ok |-> TRUE], xs, 1,
                                 WrapExp(maxexp + cq - wq), maxexp, ws)}})

\* the inputs of the earlier implementation: lists over two exponents, and
\* lists of two numbers of the largest exponents and one of any exponent
OldExps == 1..2

OldValues == Singulars \cup {v \in Regulars : v.exp \in OldExps}

OldInputs ==
  UNION {[1..n -> OldValues] : n \in 0..MaxN} \cup
    {<<Num("reg", s1, ExpHigh, 1, 1), Num("reg", s2, ExpHigh - 1, 1, 1),
       Num("reg", s3, e3, 1, 1)>> : s1 \in {1, -1}, s2 \in {1, -1}, s3 \in {1, -1},
                                     e3 \in 1..(ExpHigh - 2)}

OldInit ==
  /\ x \in OldInputs
  /\ sq \in 1..MaxSq
  /\ rnd \in RndModes
  /\ pc = "call"
  /\ scan = ScanInit
  /\ acc = AccInit
  /\ r7 = R7Init
  /\ sum = NaNNum(sq)
  /\ inex = 0

\* lines 180-214: Step 2, up to the first pass of while (1)
OldEnter ==
  /\ pc = "scanned"
  /\ scan.sign_inf = 0
  /\ scan.rn > 2
  /\ LET az == AccuSize(scan.rn, sq)
     IN  acc' = TmpMark([AccInit EXCEPT !.ws = az.ws, !.wq = az.wq, !.ws0 = az.ws,
                                        !.logn = az.logn, !.cq = az.cq,
                                        !.minexp = scan.maxexp + az.cq - az.wq,
                                        !.maxexp = scan.maxexp, !.status = "loop"])
  /\ pc' = "while"
  /\ UNCHANGED <<x, sq, rnd, scan, r7, sum, inex>>

\* the state after a pass that ended as r
OldStep(r) ==
  /\ acc' = [acc EXCEPT !.w = r.w, !.maxexp = r.maxexp, !.cq = r.cq,
                        !.minexp = WrapExp(r.maxexp + r.cq - acc.wq),
                        !.cancel = r.cancel, !.e = r.e, !.err = r.err,
                        !.assertd = @ /\ r.assertd, !.status = r.status]
  /\ IF r.status = "undef" THEN pc' \in {"abort", "hang"} ELSE pc' = "while"

\* lines 216-527: one pass of while (1); no statement of the body leaves the
\* loop: the continue of lines 237 and 348 are those of the for loop, those
\* of lines 458 and 521 start the next pass, and the end of the body is
\* reached when err <= q - 3
OldPass ==
  /\ pc = "while"
  /\ \E clz0 \in 0..B, trapv \in BOOLEAN :
       \E r \in {old_pass(acc.w, acc.maxexp, acc.cq, x, acc.ws, acc.wq, acc.logn, sq,
                          clz0, trapv)} :
         OldStep(r)
  /\ UNCHANGED <<x, sq, rnd, scan, r7, sum, inex>>

OldNext ==
  \/ CallFast
  \/ CallScan
  \/ ReturnSingular
  \/ ReturnFewRegular
  \/ OldEnter
  \/ OldPass

\* the function runs on its own: a step that can be taken is taken
OldSpec == OldInit /\ [][OldNext]_vars /\ WF_vars(OldNext)

\* C30: the earlier implementation returns for every list of n >= 3 finite
\* inputs with at least 3 regular numbers: once its main while (1) loop is
\* entered, the loop is eventually left (by the return the claim speaks of,
\* or at all).
C30_LoopIsLeft == (pc = "while") ~> (pc # "while")

====
